---- MODULE Spec2Model ----
(***************************************************************************)
(* State-machine model of lib/ael/scrapers.py: the Scraper base class      *)
(* (candidate selection state, the four lazily loaded disk caches, the      *)
(* error counter that disables the scraper) and the ScrapeStrategy engine   *)
(* that plans and executes the metadata and asset actions of a ROM.         *)
(*                                                                         *)
(* Attributes the file reads but never assigns (launcher, platform,        *)
(* pdialog, pdialogger, meta_and_asset_scraper_same) and the names it uses *)
(* from other modules (kodi, constants, io, text) are taken as supplied by *)
(* the caller, and so are the global names it uses without importing them  *)
(* (text_format_ROM_title, FileName, fs_export_ROM_NFO, xbmcgui), each     *)
(* taken to be the function it names.  The abstract methods of Scraper are *)
(* modelled from the contract written above their declarations.            *)
(***************************************************************************)
EXTENDS Integers, Sequences, FiniteSets, TLC

VARIABLES
    scraper,      \* the fields of one Scraper instance
    session,      \* how many Scraper objects were created before this one
    disk,         \* the cache files below scraper_cache_dir
    status_dic,   \* the status dictionary handed to the last fallible call
    strategy,     \* the fields of the ScrapeStrategy object
    rom,          \* the ROM object being processed
    last,         \* what the last operation was, what it called and returned
    scan          \* the progress of scanner_process_launcher over the ROMs

vars == <<scraper, session, disk, status_dic, strategy, rom, last, scan>>

-----------------------------------------------------------------------------
(* Bounds of the model.                                                     *)

\* Number of distinct ROM file basenames (cache keys).
NumKeys == 2
\* Longest candidate list a search returns.
MaxCandidates == 2
\* Errors recorded before the error operations stop being offered.
MaxErrors == 7
\* Search errors offered during candidate resolution.
MaxSearchErrors == 1
\* Sessions (Scraper objects) started after the first one.
MaxSessions == 1
\* Number of asset kinds a launcher can have enabled.
NumAssets == 2
\* Longest list of assets get_assets returns.
MaxAssetData == 1

Keys == 1 .. NumKeys
Platforms == {"P1", "P2"}

-----------------------------------------------------------------------------
(* Program constants.                                                       *)

EXCEPTION_COUNTER_THRESHOLD == 5

CACHE_CANDIDATES == "candidates"
CACHE_METADATA == "metadata"
CACHE_ASSETS == "assets"
CACHE_INTERNAL == "internal"
CACHE_LIST == <<CACHE_CANDIDATES, CACHE_METADATA, CACHE_ASSETS, CACHE_INTERNAL>>
CacheKinds == {CACHE_LIST[i] : i \in 1 .. Len(CACHE_LIST)}

-----------------------------------------------------------------------------
(* Python values.                                                           *)

\* None, the empty dictionary dict(), and the candidate dictionaries a search
\* returns (told apart by their 'id').
None == "None"
EmptyDict == "{}"
GameIds == <<"game1", "game2", "game3", "game4">>
CandidateDics == {GameIds[i] : i \in 1 .. MaxCandidates}
\* What the metadata, assets and internal caches hold for a key.
CachedData == {"data"}
\* Python truthiness of a candidate: None and {} are false.
Truthy(v) == v \notin {None, EmptyDict}

EmptyCache == [k \in {} |-> None]
CacheDel(c, key) == [k \in (DOMAIN c) \ {key} |-> c[k]]
CachePut(c, key, data) == [k \in (DOMAIN c) \cup {key} |-> IF k = key THEN data ELSE c[k]]

\* json.dumps(dic, sort_keys = True): the text is the list of the (key, value)
\* members in ascending key order.  json.loads(text): the dictionary that has
\* exactly the members listed in the text.
RECURSIVE json_members(_, _)
json_members(dic, ks) ==
    IF ks = {} THEN <<>>
    ELSE LET k == CHOOSE x \in ks : \A y \in ks : x <= y
         IN <<(<<k, dic[k]>>)>> \o json_members(dic, ks \ {k})
json_dumps(dic) == json_members(dic, DOMAIN dic)
json_loads(text) ==
    [k \in {text[i][1] : i \in 1 .. Len(text)} |->
        LET i == CHOOSE j \in 1 .. Len(text) : text[j][1] = k IN text[i][2]]

NoFile == [isfile |-> FALSE, text |-> <<>>]
File(text) == [isfile |-> TRUE, text |-> text]

\* kodi.new_status_dic(msg)
new_status_dic(msg) == [status |-> TRUE, msg |-> msg]

-----------------------------------------------------------------------------
(* Scraper: private disk cache functions.  Each operator takes the object   *)
(* s (and the disk d where it reads files) and gives the object afterwards. *)

\* The cache file of (platform, cache_type) in scraper_cache_dir; its name is
\* get_filename() + '__' + platform + '__' + cache_type + '.json'.
_get_scraper_file_name(cache_type, platform) == <<platform, cache_type>>

\* Variant of _load_disk_cache that never reads the file.
_load_disk_cache_ignoring_file(s, d, cache_type, platform) ==
    [s EXCEPT !.disk_caches[cache_type] = EmptyCache,
              !.disk_caches_loaded[cache_type] = TRUE,
              !.disk_caches_dirty[cache_type] = FALSE,
              !.loads[cache_type] = @ + 1]

\* (loads counts the calls of _load_disk_cache on the object for each kind.)
_load_disk_cache(s, d, cache_type, platform) ==
    LET f == d[_get_scraper_file_name(cache_type, platform)]
    IN [s EXCEPT !.disk_caches[cache_type] =
                     IF f.isfile THEN json_loads(f.text) ELSE EmptyCache,
                 !.disk_caches_loaded[cache_type] = TRUE,
                 !.disk_caches_dirty[cache_type] = FALSE,
                 !.loads[cache_type] = @ + 1]

\* Variant of _lazy_load_disk_cache that loads the file at every call.
_lazy_load_disk_cache_at_every_call(s, d, cache_type) ==
    _load_disk_cache(s, d, cache_type, s.platform)

_lazy_load_disk_cache(s, d, cache_type) ==
    IF ~s.disk_caches_loaded[cache_type]
    THEN _load_disk_cache(s, d, cache_type, s.platform)
    ELSE s

\* _check_disk_cache lazily loads and then tests membership: the object after
\* the call, and the value returned.
_check_disk_cache(s, d, cache_type) == _lazy_load_disk_cache(s, d, cache_type)
_check_disk_cache_ret(s, d, cache_type, cache_key) ==
    cache_key \in DOMAIN _check_disk_cache(s, d, cache_type).disk_caches[cache_type]

_retrieve_from_disk_cache(s, cache_type, cache_key) ==
    s.disk_caches[cache_type][cache_key]

\* Variant of _delete_from_disk_cache that leaves the dirty flag alone.
_delete_from_disk_cache_keeping_flag(s, cache_type, cache_key) ==
    [s EXCEPT !.disk_caches[cache_type] = CacheDel(@, cache_key)]

_delete_from_disk_cache(s, cache_type, cache_key) ==
    [s EXCEPT !.disk_caches[cache_type] = CacheDel(@, cache_key),
              !.disk_caches_dirty[cache_type] = TRUE]

_update_disk_cache(s, d, cache_type, cache_key, data) ==
    LET s1 == _lazy_load_disk_cache(s, d, cache_type)
    IN [s1 EXCEPT !.disk_caches[cache_type] = CachePut(@, cache_key, data),
                  !.disk_caches_dirty[cache_type] = TRUE]

-----------------------------------------------------------------------------
(* Scraper: public candidate and cache functions.                           *)

check_candidates_cache(s, d, rom_FN, platform) ==
    _check_disk_cache([s EXCEPT !.cache_key = rom_FN, !.platform = platform],
                      d, CACHE_CANDIDATES)
check_candidates_cache_ret(s, d, rom_FN, platform) ==
    rom_FN \in DOMAIN check_candidates_cache(s, d, rom_FN, platform).disk_caches[CACHE_CANDIDATES]

\* retrieve_from_candidates_cache sets cache_key and returns the cached value.
retrieve_from_candidates_cache(s, rom_FN, platform) == [s EXCEPT !.cache_key = rom_FN]
retrieve_from_candidates_cache_ret(s, rom_FN, platform) ==
    _retrieve_from_disk_cache(s, CACHE_CANDIDATES, rom_FN)

\* Variant of set_candidate_from_cache that stores the candidate the way
\* set_candidate does, marking the candidates cache dirty.
set_candidate_from_cache_marking_dirty(s, rom_FN, platform) ==
    [s EXCEPT !.cache_key = rom_FN,
              !.platform = platform,
              !.candidate = _retrieve_from_disk_cache(s, CACHE_CANDIDATES, rom_FN),
              !.disk_caches_dirty[CACHE_CANDIDATES] = TRUE]

\* Variant of set_candidate_from_cache that does not take the cached value.
set_candidate_from_cache_without_value(s, rom_FN, platform) ==
    [s EXCEPT !.cache_key = rom_FN,
              !.platform = platform,
              !.candidate = None]

set_candidate_from_cache(s, rom_FN, platform) ==
    [s EXCEPT !.cache_key = rom_FN,
              !.platform = platform,
              !.candidate = _retrieve_from_disk_cache(s, CACHE_CANDIDATES, rom_FN)]

\* Variant of set_candidate without the test for None: None is cached too.
set_candidate_caching_none(s, d, rom_FN, platform, candidate) ==
    _update_disk_cache([s EXCEPT !.cache_key = rom_FN,
                                 !.platform = platform,
                                 !.candidate = candidate],
                       d, CACHE_CANDIDATES, rom_FN, candidate)

\* Variant of set_candidate testing 'not candidate' instead of
\* 'candidate is None': the empty dictionary is not cached either.
set_candidate_skipping_empty(s, d, rom_FN, platform, candidate) ==
    LET s1 == [s EXCEPT !.cache_key = rom_FN,
                        !.platform = platform,
                        !.candidate = candidate]
    IN IF ~Truthy(candidate) THEN s1
       ELSE _update_disk_cache(s1, d, CACHE_CANDIDATES, rom_FN, candidate)

set_candidate(s, d, rom_FN, platform, candidate) ==
    LET s1 == [s EXCEPT !.cache_key = rom_FN,
                        !.platform = platform,
                        !.candidate = candidate]
    IN IF candidate = None THEN s1
       ELSE _update_disk_cache(s1, d, CACHE_CANDIDATES, rom_FN, candidate)

\* The body of the loop of clear_cache for the i-th cache type, and the loop.
clear_cache_type(s, d, cache_type) ==
    IF _check_disk_cache_ret(s, d, cache_type, s.cache_key)
    THEN _delete_from_disk_cache(_check_disk_cache(s, d, cache_type), cache_type, s.cache_key)
    ELSE _check_disk_cache(s, d, cache_type)

RECURSIVE clear_cache_loop(_, _, _)
clear_cache_loop(s, d, i) ==
    IF i > Len(CACHE_LIST) THEN s
    ELSE clear_cache_loop(clear_cache_type(s, d, CACHE_LIST[i]), d, i + 1)

\* Variant of clear_cache that purges the candidates cache only.
clear_cache_candidates_only(s, d, rom_FN, platform) ==
    clear_cache_type([s EXCEPT !.cache_key = rom_FN, !.platform = platform],
                     d, CACHE_CANDIDATES)

clear_cache(s, d, rom_FN, platform) ==
    clear_cache_loop([s EXCEPT !.cache_key = rom_FN, !.platform = platform], d, 1)

\* Variant of flush_cache_type without the test of the dirty flag.
flush_cache_type_ignoring_dirty(c, cache_type) ==
    IF ~c.scraper.disk_caches_loaded[cache_type] THEN c
    ELSE IF c.scraper.disk_caches[cache_type] = EmptyCache THEN c
    ELSE LET json_data == json_dumps(c.scraper.disk_caches[cache_type])
             json_file_path == _get_scraper_file_name(cache_type, c.scraper.platform)
         IN [scraper |-> [c.scraper EXCEPT !.disk_caches_dirty[cache_type] = FALSE],
             disk |-> [c.disk EXCEPT ![json_file_path] = File(json_data)],
             written |-> Append(c.written, json_file_path)]

\* Variant of flush_cache_type that leaves a written cache dirty.
flush_cache_type_leaving_dirty(c, cache_type) ==
    IF ~c.scraper.disk_caches_loaded[cache_type] THEN c
    ELSE IF c.scraper.disk_caches[cache_type] = EmptyCache THEN c
    ELSE IF ~c.scraper.disk_caches_dirty[cache_type] THEN c
    ELSE LET json_data == json_dumps(c.scraper.disk_caches[cache_type])
             json_file_path == _get_scraper_file_name(cache_type, c.scraper.platform)
         IN [scraper |-> c.scraper,
             disk |-> [c.disk EXCEPT ![json_file_path] = File(json_data)],
             written |-> Append(c.written, json_file_path)]

\* flush_disk_cache.  c holds the object, the disk and the list of files written
\* so far; flush_cache_type is the body of the loop for one cache type.
flush_cache_type(c, cache_type) ==
    IF ~c.scraper.disk_caches_loaded[cache_type] THEN c
    ELSE IF c.scraper.disk_caches[cache_type] = EmptyCache THEN c
    ELSE IF ~c.scraper.disk_caches_dirty[cache_type] THEN c
    ELSE LET json_data == json_dumps(c.scraper.disk_caches[cache_type])
             json_file_path == _get_scraper_file_name(cache_type, c.scraper.platform)
         IN [scraper |-> [c.scraper EXCEPT !.disk_caches_dirty[cache_type] = FALSE],
             disk |-> [c.disk EXCEPT ![json_file_path] = File(json_data)],
             written |-> Append(c.written, json_file_path)]

RECURSIVE flush_loop(_, _)
flush_loop(c, i) ==
    IF i > Len(CACHE_LIST) THEN c
    ELSE flush_loop(flush_cache_type(c, CACHE_LIST[i]), i + 1)

flush_disk_cache(s, d) ==
    IF ~s.supports_disk_cache
    THEN [scraper |-> s, disk |-> d, written |-> <<>>]
    ELSE flush_loop([scraper |-> s, disk |-> d, written |-> <<>>], 1)

-----------------------------------------------------------------------------
(* Scraper: error accounting.                                               *)

ERR_DISABLED == "Maximum number of errors exceeded. Disabling scraper."

\* Variant of _handle_error disabling at the threshold (>=) instead of above it.
_handle_error_at_threshold(s, st, user_msg) ==
    LET n == s.exception_counter + 1
        off == n >= EXCEPTION_COUNTER_THRESHOLD
    IN [scraper |-> [s EXCEPT !.exception_counter = n,
                              !.scraper_disabled = IF off THEN TRUE ELSE @],
        status_dic |-> [status |-> FALSE,
                        msg |-> IF off THEN ERR_DISABLED ELSE user_msg]]

\* Variant of _handle_error that keeps the message of the error when it
\* disables the scraper.
_handle_error_keeping_msg(s, st, user_msg) ==
    LET n == s.exception_counter + 1
        off == n > EXCEPTION_COUNTER_THRESHOLD
    IN [scraper |-> [s EXCEPT !.exception_counter = n,
                              !.scraper_disabled = IF off THEN TRUE ELSE @],
        status_dic |-> [status |-> FALSE, msg |-> user_msg]]

\* Variant of _handle_error that starts counting again when it disables.
_handle_error_resetting(s, st, user_msg) ==
    LET n == s.exception_counter + 1
        off == n > EXCEPTION_COUNTER_THRESHOLD
    IN [scraper |-> [s EXCEPT !.exception_counter = IF off THEN 0 ELSE n,
                              !.scraper_disabled = IF off THEN TRUE ELSE @],
        status_dic |-> [status |-> FALSE,
                        msg |-> IF off THEN ERR_DISABLED ELSE user_msg]]

\* _handle_error gives the object and the status dictionary afterwards.
_handle_error(s, st, user_msg) ==
    LET n == s.exception_counter + 1
        off == n > EXCEPTION_COUNTER_THRESHOLD
    IN [scraper |-> [s EXCEPT !.exception_counter = n,
                              !.scraper_disabled = IF off THEN TRUE ELSE @],
        status_dic |-> [status |-> FALSE,
                        msg |-> IF off THEN ERR_DISABLED ELSE user_msg]]

-----------------------------------------------------------------------------
(* Scraper: the fallible operations.  get_candidates is abstract; its       *)
(* contract is the comment above its declaration: a disabled scraper gives  *)
(* None without touching the status and without a request; an error is      *)
(* recorded with _handle_error and gives None; otherwise the list found     *)
(* (possibly empty) is returned with the status left True.                  *)

\* The lists a search can find: the empty list and the runs of the roster of
\* candidate dictionaries (no dictionary twice in a list).
CandidateLists ==
    {SubSeq(GameIds, i, j) : i \in 1 .. (MaxCandidates + 1), j \in 0 .. MaxCandidates}

\* What the network does on one request: an error, or a list of candidates.
SearchOutcomes ==
    {[error |-> TRUE, list |-> <<>>]} \cup
    {[error |-> FALSE, list |-> l] : l \in CandidateLists}

ERR_SEARCH == "Error in get_candidates()"

\* Variant of get_candidates that records an error when nothing was found.
get_candidates_counting_empty(s, st, outcome) ==
    IF s.scraper_disabled
    THEN [scraper |-> s, status_dic |-> st, is_none |-> TRUE, list |-> <<>>,
          transport |-> 0]
    ELSE IF outcome.error
    THEN LET h == _handle_error(s, st, ERR_SEARCH)
         IN [scraper |-> h.scraper, status_dic |-> h.status_dic,
             is_none |-> TRUE, list |-> <<>>, transport |-> 1]
    ELSE IF outcome.list = <<>>
    THEN LET h == _handle_error(s, st, ERR_SEARCH)
         IN [scraper |-> h.scraper, status_dic |-> h.status_dic,
             is_none |-> FALSE, list |-> <<>>, transport |-> 1]
    ELSE [scraper |-> s, status_dic |-> st, is_none |-> FALSE,
          list |-> outcome.list, transport |-> 1]

\* Variant of get_candidates that makes its request although the scraper is
\* disabled.
get_candidates_while_disabled(s, st, outcome) ==
    IF outcome.error
    THEN LET h == _handle_error(s, st, ERR_SEARCH)
         IN [scraper |-> h.scraper, status_dic |-> h.status_dic,
             is_none |-> TRUE, list |-> <<>>, transport |-> 1]
    ELSE [scraper |-> s, status_dic |-> st, is_none |-> FALSE,
          list |-> outcome.list, transport |-> 1]

get_candidates(s, st, outcome) ==
    IF s.scraper_disabled
    THEN [scraper |-> s, status_dic |-> st, is_none |-> TRUE, list |-> <<>>,
          transport |-> 0]
    ELSE IF outcome.error
    THEN LET h == _handle_error(s, st, ERR_SEARCH)
         IN [scraper |-> h.scraper, status_dic |-> h.status_dic,
             is_none |-> TRUE, list |-> <<>>, transport |-> 1]
    ELSE [scraper |-> s, status_dic |-> st, is_none |-> FALSE,
          list |-> outcome.list, transport |-> 1]

-----------------------------------------------------------------------------
(* ScrapeStrategy: candidate resolution.                                    *)

SCRAPE_AUTOMATIC == "SCRAPE_AUTOMATIC"
SCRAPE_MANUAL == "SCRAPE_MANUAL"

\* The index chosen among a non-empty list of candidates; answer is what
\* ListDialog().select() returns when the dialog is shown (-1: cancelled).
\* An invalid game_selection_mode raises ValueError: no index.
NoIndex == 0 - 1
select_candidate_idx_passing_cancel(game_selection_mode, candidates, answer) ==
    IF game_selection_mode = SCRAPE_AUTOMATIC
    THEN IF Len(candidates) = 1 THEN 0
         ELSE IF answer < 0 THEN Len(candidates) - 1 ELSE answer
    ELSE IF game_selection_mode = SCRAPE_MANUAL THEN 0
    ELSE NoIndex

select_candidate_idx(game_selection_mode, candidates, answer) ==
    IF game_selection_mode = SCRAPE_AUTOMATIC
    THEN IF Len(candidates) = 1 THEN 0
         ELSE IF answer < 0 THEN 0 ELSE answer
    ELSE IF game_selection_mode = SCRAPE_MANUAL THEN 0
    ELSE NoIndex

\* Whether the chooser dialog is opened.
select_dialog_shown(game_selection_mode, candidates) ==
    game_selection_mode = SCRAPE_AUTOMATIC /\ Len(candidates) # 1

\* _scanner_get_candidate on the item with basename key.  The result holds the
\* scraper object, the status dictionary passed in, and what was observed:
\* the scraper methods called in order, the network requests made, the dialogs
\* shown, whether the cache was used and whether an exception was raised.
_scanner_get_candidate(st, s, d, st_dic, key, outcome, answer) ==
    LET s1 == check_candidates_cache(s, d, key, st.platform)
        use_from_cache == check_candidates_cache_ret(s, d, key, st.platform)
    IN IF use_from_cache
       THEN [scraper |-> set_candidate_from_cache(
                             retrieve_from_candidates_cache(s1, key, st.platform),
                             key, st.platform),
             status_dic |-> st_dic,
             calls |-> <<"check_candidates_cache", "retrieve_from_candidates_cache",
                         "set_candidate_from_cache">>,
             transport |-> 0, dialogs |-> <<>>, use_from_cache |-> TRUE,
             is_none |-> FALSE, list |-> <<>>, raised |-> FALSE]
       ELSE LET s2 == clear_cache(s1, d, key, st.platform)
                g == get_candidates(s2, st_dic, outcome)
                shown == IF ~g.status_dic.status THEN <<g.status_dic.msg>> ELSE <<>>
                base == [scraper |-> g.scraper, status_dic |-> g.status_dic,
                         calls |-> <<"check_candidates_cache", "clear_cache",
                                     "get_candidates">>,
                         transport |-> g.transport, dialogs |-> shown,
                         use_from_cache |-> FALSE,
                         is_none |-> g.is_none, list |-> g.list, raised |-> FALSE]
            IN IF g.is_none
               THEN [base EXCEPT
                        !.scraper = set_candidate(g.scraper, d, key, st.platform, None),
                        !.calls = Append(@, "set_candidate")]
               ELSE IF g.list = <<>>
               THEN [base EXCEPT
                        !.scraper = set_candidate(g.scraper, d, key, st.platform, EmptyDict),
                        !.calls = Append(@, "set_candidate")]
               ELSE LET idx == select_candidate_idx(st.game_selection_mode, g.list, answer)
                        dlg == IF select_dialog_shown(st.game_selection_mode, g.list)
                               THEN <<"Select game">> ELSE <<>>
                    IN IF idx = NoIndex
                       THEN [base EXCEPT !.raised = TRUE]
                       ELSE [base EXCEPT
                                !.scraper = set_candidate(g.scraper, d, key, st.platform,
                                                          g.list[idx + 1]),
                                !.calls = Append(@, "set_candidate"),
                                !.dialogs = @ \o dlg]

-----------------------------------------------------------------------------
(* ScrapeStrategy: planning of the metadata action and the asset actions.   *)

ACTION_META_NONE == 0
ACTION_META_TITLE_ONLY == 100
ACTION_META_NFO_FILE == 200
ACTION_META_SCRAPER == 300

ACTION_ASSET_NONE == 0
ACTION_ASSET_LOCAL_ASSET == 100
ACTION_ASSET_SCRAPER == 200

\* The policies of ael.constants, and a value that is none of them.
SCRAPE_POLICY_TITLE_ONLY == "SCRAPE_POLICY_TITLE_ONLY"
SCRAPE_POLICY_NFO_PREFERED == "SCRAPE_POLICY_NFO_PREFERED"
SCRAPE_POLICY_NFO_AND_SCRAPE == "SCRAPE_POLICY_NFO_AND_SCRAPE"
SCRAPE_POLICY_SCRAPE_ONLY == "SCRAPE_POLICY_SCRAPE_ONLY"
SCRAPE_POLICY_LOCAL_ONLY == "SCRAPE_POLICY_LOCAL_ONLY"
SCRAPE_POLICY_LOCAL_AND_SCRAPE == "SCRAPE_POLICY_LOCAL_AND_SCRAPE"
SCRAPE_POLICY_OTHER == "SCRAPE_POLICY_OTHER"

MetadataPolicies ==
    {SCRAPE_POLICY_TITLE_ONLY, SCRAPE_POLICY_NFO_PREFERED,
     SCRAPE_POLICY_NFO_AND_SCRAPE, SCRAPE_POLICY_SCRAPE_ONLY}
AssetPolicies ==
    {SCRAPE_POLICY_LOCAL_ONLY, SCRAPE_POLICY_LOCAL_AND_SCRAPE, SCRAPE_POLICY_SCRAPE_ONLY}

\* The action of an object whose action attribute was never assigned.
Unset == 0 - 1

\* The asset kinds (AssetInfo.id) a launcher can enable, in list order.
AssetRoster == <<"s_snap", "s_trailer", "s_boxfront", "s_fanart">>
AssetIds == {AssetRoster[i] : i \in 1 .. NumAssets}
\* The lists of enabled assets: the members of a set of ids in roster order.
RECURSIVE AssetList(_, _)
AssetList(ids, i) ==
    IF i > NumAssets THEN <<>>
    ELSE (IF AssetRoster[i] \in ids THEN <<AssetRoster[i]>> ELSE <<>>)
         \o AssetList(ids, i + 1)
ListIds(l) == {l[i] : i \in 1 .. Len(l)}

\* Variant of _scanner_process_ROM_metadata_begin with the fallbacks of the two
\* NFO policies exchanged.
_scanner_process_ROM_metadata_begin_swapped(st, NFO_file_found) ==
    IF ~st.has_meta_scraper_obj
    THEN [st EXCEPT !.metadata_action = ACTION_META_NONE]
    ELSE IF st.scrape_metadata_policy = SCRAPE_POLICY_TITLE_ONLY
    THEN [st EXCEPT !.metadata_action = ACTION_META_TITLE_ONLY]
    ELSE IF st.scrape_metadata_policy = SCRAPE_POLICY_NFO_PREFERED
    THEN [st EXCEPT !.metadata_action =
             IF NFO_file_found THEN ACTION_META_NFO_FILE ELSE ACTION_META_SCRAPER]
    ELSE IF st.scrape_metadata_policy = SCRAPE_POLICY_NFO_AND_SCRAPE
    THEN [st EXCEPT !.metadata_action =
             IF NFO_file_found THEN ACTION_META_NFO_FILE ELSE ACTION_META_TITLE_ONLY]
    ELSE IF st.scrape_metadata_policy = SCRAPE_POLICY_SCRAPE_ONLY
    THEN [st EXCEPT !.metadata_action = ACTION_META_SCRAPER]
    ELSE st

\* _scanner_process_ROM_metadata_begin: the strategy object afterwards, and
\* whether it raised.  NFO_file_found is self.NFO_file.exists().
_scanner_process_ROM_metadata_begin(st, NFO_file_found) ==
    IF ~st.has_meta_scraper_obj
    THEN [st EXCEPT !.metadata_action = ACTION_META_NONE]
    ELSE IF st.scrape_metadata_policy = SCRAPE_POLICY_TITLE_ONLY
    THEN [st EXCEPT !.metadata_action = ACTION_META_TITLE_ONLY]
    ELSE IF st.scrape_metadata_policy = SCRAPE_POLICY_NFO_PREFERED
    THEN [st EXCEPT !.metadata_action =
             IF NFO_file_found THEN ACTION_META_NFO_FILE ELSE ACTION_META_TITLE_ONLY]
    ELSE IF st.scrape_metadata_policy = SCRAPE_POLICY_NFO_AND_SCRAPE
    THEN [st EXCEPT !.metadata_action =
             IF NFO_file_found THEN ACTION_META_NFO_FILE ELSE ACTION_META_SCRAPER]
    ELSE IF st.scrape_metadata_policy = SCRAPE_POLICY_SCRAPE_ONLY
    THEN [st EXCEPT !.metadata_action = ACTION_META_SCRAPER]
    ELSE st

_scanner_process_ROM_metadata_begin_raises(st) ==
    /\ st.has_meta_scraper_obj
    /\ st.scrape_metadata_policy \notin MetadataPolicies

\* Variant of asset_action that never asks whether the scraper supports the
\* asset.
asset_action_ignoring_support(policy, local, supported) ==
    IF policy = SCRAPE_POLICY_LOCAL_ONLY THEN ACTION_ASSET_LOCAL_ASSET
    ELSE IF policy = SCRAPE_POLICY_LOCAL_AND_SCRAPE
    THEN (IF local THEN ACTION_ASSET_LOCAL_ASSET ELSE ACTION_ASSET_SCRAPER)
    ELSE ACTION_ASSET_SCRAPER

\* The action chosen for one enabled asset in the loop of
\* _scanner_process_ROM_assets_begin; local is local_asset_list[AInfo.id] being
\* non-empty, supported is asset_scraper_obj.supports_asset_ID(AInfo.id).
asset_action(policy, local, supported) ==
    IF policy = SCRAPE_POLICY_LOCAL_ONLY THEN ACTION_ASSET_LOCAL_ASSET
    ELSE IF policy = SCRAPE_POLICY_LOCAL_AND_SCRAPE
    THEN (IF local THEN ACTION_ASSET_LOCAL_ASSET
          ELSE IF supported THEN ACTION_ASSET_SCRAPER
          ELSE ACTION_ASSET_LOCAL_ASSET)
    ELSE (IF ~supported /\ local THEN ACTION_ASSET_LOCAL_ASSET
          ELSE IF ~supported /\ ~local THEN ACTION_ASSET_LOCAL_ASSET
          ELSE ACTION_ASSET_SCRAPER)

\* _scanner_process_ROM_assets_begin; found is the set of enabled assets for
\* which launcher.get_local_assets() gives a path.  Without an asset scraper
\* the dictionary comprehension unpacks every element of enabled_asset_list
\* into (key, value): the elements are AssetInfo objects, so it raises
\* TypeError on the first one and nothing is assigned.
_scanner_process_ROM_assets_begin(st, found) ==
    IF ~st.has_asset_scraper_obj
    THEN (IF st.enabled_asset_list = <<>>
          THEN [st EXCEPT !.asset_action_list = EmptyCache]
          ELSE st)
    ELSE LET st1 == [st EXCEPT
                        !.local_asset_list =
                            [id \in ListIds(st.enabled_asset_list) |->
                                IF id \in found THEN "local" ELSE ""],
                        !.asset_action_list = EmptyCache]
         IN IF st.scrape_assets_policy \notin AssetPolicies THEN st1
            ELSE [st1 EXCEPT !.asset_action_list =
                     [id \in ListIds(st.enabled_asset_list) |->
                         asset_action(st.scrape_assets_policy,
                                      st1.local_asset_list[id] # "",
                                      id \in st.asset_scraper_supports)]]

_scanner_process_ROM_assets_begin_raises(st) ==
    IF ~st.has_asset_scraper_obj THEN st.enabled_asset_list # <<>>
    ELSE st.scrape_assets_policy \notin AssetPolicies

-----------------------------------------------------------------------------
(* The ROM object and the game data of a scraper.  The ROM class is not in  *)
(* this file: its setters are taken to store their argument in the field    *)
(* they name, and has_asset to tell whether the asset field is non-empty.   *)

\* text.format_ROM_title(ROM_file.getBaseNoExt(), self.scan_clean_tags)
format_ROM_title == "clean title"

\* get_metadata returning None.
NoGameData == [none |-> TRUE]
IsNoGameData(gamedata) == "none" \in DOMAIN gamedata
\* _new_gamedata_dic(): the dictionary with default values, and one filled in.
DefaultGameData ==
    [title |-> "", year |-> "", genre |-> "", developer |-> "",
     nplayers |-> "", esrb |-> "", plot |-> ""]
ScrapedGameData ==
    [title |-> "scraped title", year |-> "scraped year", genre |-> "scraped genre",
     developer |-> "scraped developer", nplayers |-> "scraped nplayers",
     esrb |-> "scraped esrb", plot |-> "scraped plot"]
\* What ROM.update_with_nfo_file reads from the NFO file.
NFOGameData ==
    [title |-> "nfo title", year |-> "nfo year", genre |-> "nfo genre",
     developer |-> "nfo developer", nplayers |-> "nfo nplayers",
     esrb |-> "nfo esrb", plot |-> "nfo plot"]

\* A ROM as the scanner hands it over: metadata from an earlier scan, and for
\* each asset kind the path stored, '' when there is none.
NewROM ==
    [name |-> "old title", year |-> "old year", genre |-> "old genre",
     developer |-> "old developer", nplayers |-> "old nplayers",
     esrb |-> "old esrb", plot |-> "old plot",
     assets |-> [id \in AssetIds |-> ""]]

set_name(r, v) == [r EXCEPT !.name = v]
set_releaseyear(r, v) == [r EXCEPT !.year = v]
set_genre(r, v) == [r EXCEPT !.genre = v]
set_developer(r, v) == [r EXCEPT !.developer = v]
set_number_of_players(r, v) == [r EXCEPT !.nplayers = v]
set_esrb_rating(r, v) == [r EXCEPT !.esrb = v]
set_plot(r, v) == [r EXCEPT !.plot = v]
set_asset(r, id, path) == [r EXCEPT !.assets[id] = path]
\* constants.ASSET_TRAILER_ID
ASSET_TRAILER_ID == "s_trailer"
set_trailer(r, path) == [r EXCEPT !.assets[ASSET_TRAILER_ID] = path]
has_asset(r, id) == r.assets[id] # ""
update_with_nfo_file(r) ==
    [r EXCEPT !.name = NFOGameData.title, !.year = NFOGameData.year,
              !.genre = NFOGameData.genre, !.developer = NFOGameData.developer,
              !.nplayers = NFOGameData.nplayers, !.esrb = NFOGameData.esrb,
              !.plot = NFOGameData.plot]

-----------------------------------------------------------------------------
(* ScrapeStrategy: execution of the metadata action.  get_metadata is       *)
(* abstract; its contract is the comment above its declaration and the one  *)
(* of get_candidates: a disabled scraper gives None without touching the    *)
(* status and without a request, an error is recorded with _handle_error    *)
(* and gives None, otherwise a game data dictionary is returned.            *)

MetadataOutcomes ==
    {[error |-> TRUE, data |-> NoGameData]} \cup
    {[error |-> FALSE, data |-> g] : g \in {DefaultGameData, ScrapedGameData}}

ERR_METADATA == "Error in get_metadata()"

get_metadata(s, st, outcome) ==
    IF s.scraper_disabled
    THEN [scraper |-> s, status_dic |-> st, data |-> NoGameData, transport |-> 0]
    ELSE IF outcome.error
    THEN LET h == _handle_error(s, st, ERR_METADATA)
         IN [scraper |-> h.scraper, status_dic |-> h.status_dic,
             data |-> NoGameData, transport |-> 1]
    ELSE [scraper |-> s, status_dic |-> st, data |-> outcome.data, transport |-> 1]

\* _apply_candidate_on_metadata: the ROM afterwards, and the value returned.
_apply_candidate_on_metadata_keeping_scraped_title(st, gamedata, r) ==
    IF IsNoGameData(gamedata) THEN r
    ELSE set_plot(
           set_esrb_rating(
             set_number_of_players(
               set_developer(
                 set_genre(
                   set_releaseyear(set_name(r, gamedata.title), gamedata.year),
                   gamedata.genre),
                 gamedata.developer),
               gamedata.nplayers),
             gamedata.esrb),
           gamedata.plot)

_apply_candidate_on_metadata(st, gamedata, r) ==
    IF IsNoGameData(gamedata) THEN r
    ELSE LET r1 == IF st.scan_ignore_scrap_title
                   THEN set_name(r, format_ROM_title)
                   ELSE set_name(r, gamedata.title)
         IN set_plot(
              set_esrb_rating(
                set_number_of_players(
                  set_developer(
                    set_genre(
                      set_releaseyear(r1, gamedata.year),
                      gamedata.genre),
                    gamedata.developer),
                  gamedata.nplayers),
                gamedata.esrb),
              gamedata.plot)
_apply_candidate_on_metadata_ret(st, gamedata, r) == ~IsNoGameData(gamedata)

\* _scanner_update_NFO_file: the calls it makes, itself included.
_scanner_update_NFO_file(st) ==
    IF st.scan_update_NFO_files
    THEN <<"_scanner_update_NFO_file", "fs_export_ROM_NFO">>
    ELSE <<"_scanner_update_NFO_file">>

\* _scanner_scrap_ROM_metadata with the metadata scraper s on the ROM r: the
\* scraper, the status dictionary and the ROM afterwards, the functions called
\* in order, the requests made, the dialogs shown and the game data received.
\* Its four branches come first.

\* The candidate is None: clean the title and return.
scrap_metadata_no_candidate_updating_NFO(st, s, r) ==
    [scraper |-> s, status_dic |-> new_status_dic("No error"),
     rom |-> set_name(r, format_ROM_title),
     calls |-> _scanner_update_NFO_file(st),
     transport |-> 0, dialogs |-> <<>>, gamedata |-> NoGameData]

scrap_metadata_no_candidate(st, s, r) ==
    [scraper |-> s, status_dic |-> new_status_dic("No error"),
     rom |-> set_name(r, format_ROM_title),
     calls |-> <<>>, transport |-> 0, dialogs |-> <<>>, gamedata |-> NoGameData]

\* The candidate is empty: clean the title, update the NFO file and return.
scrap_metadata_empty_candidate(st, s, r) ==
    [scraper |-> s, status_dic |-> new_status_dic("No error"),
     rom |-> set_name(r, format_ROM_title),
     calls |-> _scanner_update_NFO_file(st),
     transport |-> 0, dialogs |-> <<>>, gamedata |-> NoGameData]

\* get_metadata left status false in the status dictionary: show it and return.
scrap_metadata_error_cleaning_title(g, r) ==
    [scraper |-> g.scraper, status_dic |-> g.status_dic,
     rom |-> set_name(r, format_ROM_title),
     calls |-> <<"get_metadata">>, transport |-> g.transport,
     dialogs |-> <<"dialog_yesno_timer">>, gamedata |-> g.data]

scrap_metadata_error(g, r) ==
    [scraper |-> g.scraper, status_dic |-> g.status_dic, rom |-> r,
     calls |-> <<"get_metadata">>, transport |-> g.transport,
     dialogs |-> <<"dialog_yesno_timer">>, gamedata |-> g.data]

\* Otherwise the game data is put into the ROM and the NFO file updated.
scrap_metadata_apply(st, g, r) ==
    [scraper |-> g.scraper, status_dic |-> g.status_dic,
     rom |-> _apply_candidate_on_metadata(st, g.data, r),
     calls |-> <<"get_metadata", "_apply_candidate_on_metadata">>
               \o _scanner_update_NFO_file(st),
     transport |-> g.transport, dialogs |-> <<>>, gamedata |-> g.data]

_scanner_scrap_ROM_metadata(st, s, r, outcome) ==
    IF s.candidate = None THEN scrap_metadata_no_candidate(st, s, r)
    ELSE IF ~Truthy(s.candidate) THEN scrap_metadata_empty_candidate(st, s, r)
    ELSE LET g == get_metadata(s, new_status_dic("No error"), outcome)
         IN IF ~g.status_dic.status
            THEN scrap_metadata_error(g, r)
            ELSE scrap_metadata_apply(st, g, r)

\* _scanner_process_ROM_metadata: the same record, with whether it raised.
_scanner_process_ROM_metadata(st, s, r, outcome) ==
    LET idle == [scraper |-> s, status_dic |-> new_status_dic("No error"), rom |-> r,
                 calls |-> <<>>, transport |-> 0, dialogs |-> <<>>,
                 gamedata |-> NoGameData, raised |-> FALSE]
    IN IF st.metadata_action = ACTION_META_NONE THEN idle
       ELSE IF st.metadata_action = ACTION_META_TITLE_ONLY
       THEN [idle EXCEPT !.rom = set_name(r, format_ROM_title)]
       ELSE IF st.metadata_action = ACTION_META_NFO_FILE
       THEN [idle EXCEPT !.rom = update_with_nfo_file(r)]
       ELSE IF st.metadata_action = ACTION_META_SCRAPER
       THEN LET m == _scanner_scrap_ROM_metadata(st, s, r, outcome)
            IN [idle EXCEPT !.scraper = m.scraper, !.status_dic = m.status_dic,
                            !.rom = m.rom, !.calls = m.calls,
                            !.transport = m.transport, !.dialogs = m.dialogs,
                            !.gamedata = m.gamedata]
       ELSE [idle EXCEPT !.raised = TRUE]

-----------------------------------------------------------------------------
(* ScrapeStrategy: execution of the asset actions.  get_assets,             *)
(* resolve_asset_URL and resolve_asset_URL_extension are abstract; their    *)
(* contracts are the comments above their declarations: None on error with  *)
(* the status dictionary updated (through _handle_error, as in              *)
(* get_candidates), and a disabled scraper gives None at once.              *)

\* The asset dictionaries a scraper can return, and the lists of them.
AssetData == <<"asset1", "asset2", "asset3">>
\* The local asset shown as first option of the chooser.
LocalAssetData == "Current local image"
\* Paths: no path (''), the local file found by get_local_assets, the file an
\* image is downloaded into, and a path that was never returned.
NoPath == ""
LocalPath == "local"
ImageLocalPath == "asset_path_noext.ext"
NotReturned == "not returned"

\* What the provider and the user do for one asset: get_assets fails or finds
\* n assets, the answer of the chooser (-1: cancelled), what resolve_asset_URL
\* and resolve_asset_URL_extension give, and whether download_image raises.
IdleAssetOutcome ==
    [error |-> TRUE, n |-> 0, answer |-> 0 - 1, url |-> "None", ext |-> "None",
     download_raises |-> FALSE]
\* The plain outcome: one asset found, the chooser cancelled if it is shown,
\* and the URL, the extension and the download all succeed.
PlainAssetOutcome ==
    [error |-> FALSE, n |-> 1, answer |-> 0 - 1, url |-> "url", ext |-> "png",
     download_raises |-> FALSE]
AssetOutcomes ==
    {o \in [error : BOOLEAN, n : 0 .. MaxAssetData, answer : (0 - 1) .. MaxAssetData,
            url : {"None", "", "url"}, ext : {"None", "", "png"},
            download_raises : BOOLEAN] :
        /\ o.error => o = IdleAssetOutcome
        /\ o.n = 0 => (o.answer = 0 - 1 /\ o.url = "None")
        /\ o.answer <= o.n
        /\ o.url # "url" => o.ext = "None"
        /\ o.ext # "png" => ~o.download_raises}

ERR_ASSETS == "Error in get_assets()"
ERR_RESOLVE == "Error in resolve_asset_URL()"
ERR_EXTENSION == "Error in resolve_asset_URL_extension()"

get_assets(s, st, outcome) ==
    IF s.scraper_disabled
    THEN [scraper |-> s, status_dic |-> st, is_none |-> TRUE, list |-> <<>>,
          transport |-> 0]
    ELSE IF outcome.error
    THEN LET h == _handle_error(s, st, ERR_ASSETS)
         IN [scraper |-> h.scraper, status_dic |-> h.status_dic,
             is_none |-> TRUE, list |-> <<>>, transport |-> 1]
    ELSE [scraper |-> s, status_dic |-> st, is_none |-> FALSE,
          list |-> SubSeq(AssetData, 1, outcome.n), transport |-> 1]

\* resolve_asset_URL: what is returned is None or the URL of a pair.
resolve_asset_URL(s, st, outcome) ==
    IF s.scraper_disabled
    THEN [scraper |-> s, status_dic |-> st, is_none |-> TRUE, value |-> None,
          transport |-> 0]
    ELSE IF outcome.url = "None"
    THEN LET h == _handle_error(s, st, ERR_RESOLVE)
         IN [scraper |-> h.scraper, status_dic |-> h.status_dic,
             is_none |-> TRUE, value |-> None, transport |-> 1]
    ELSE [scraper |-> s, status_dic |-> st, is_none |-> FALSE,
          value |-> outcome.url, transport |-> 1]

resolve_asset_URL_extension(s, st, outcome) ==
    IF s.scraper_disabled
    THEN [scraper |-> s, status_dic |-> st, is_none |-> TRUE, value |-> None,
          transport |-> 0]
    ELSE IF outcome.ext = "None"
    THEN LET h == _handle_error(s, st, ERR_EXTENSION)
         IN [scraper |-> h.scraper, status_dic |-> h.status_dic,
             is_none |-> TRUE, value |-> None, transport |-> 1]
    ELSE [scraper |-> s, status_dic |-> st, is_none |-> FALSE,
          value |-> outcome.ext, transport |-> 1]

\* The dialog shown when a status dictionary carries an error.
status_dialog(st) == IF ~st.status THEN <<"dialog_yesno_timer">> ELSE <<>>

\* _scanner_scrap_ROM_asset from the download on: image_local_path is the
\* destination before the call and what download_image returns after it; when
\* download_image raises it is still the destination.
scrap_asset_download(r, outcome) ==
    [r EXCEPT !.ret = ImageLocalPath,
              !.download_raised = outcome.download_raises,
              !.calls = Append(@, "download_image"),
              !.transport = @ + 1,
              !.dialogs = @ \o (IF outcome.download_raises
                                THEN <<"dialog_yesno_timer">> ELSE <<>>)]

\* _scanner_scrap_ROM_asset from the resolution of the URL on.  Unpacking the
\* None that resolve_asset_URL returns on error into (image_url,
\* image_url_log) raises TypeError.
scrap_asset_resolve(r, outcome) ==
    LET u == resolve_asset_URL(r.scraper, new_status_dic("No error"), outcome)
        r1 == [r EXCEPT !.scraper = u.scraper,
                        !.calls = Append(@, "resolve_asset_URL"),
                        !.transport = @ + u.transport]
    IN IF u.is_none THEN [r1 EXCEPT !.raised = TRUE, !.ret = NotReturned]
       ELSE LET r2 == [r1 EXCEPT !.dialogs = @ \o status_dialog(u.status_dic)]
            IN IF u.value = "" THEN r2
               ELSE LET e == resolve_asset_URL_extension(r2.scraper,
                                  new_status_dic("No error"), outcome)
                        r3 == [r2 EXCEPT
                                  !.scraper = e.scraper,
                                  !.calls = Append(@, "resolve_asset_URL_extension"),
                                  !.transport = @ + e.transport,
                                  !.dialogs = @ \o status_dialog(e.status_dic)]
                    IN IF e.is_none \/ e.value = "" THEN r3
                       ELSE scrap_asset_download(r3, outcome)

\* Variant of the choice of the asset that opens the chooser in manual mode
\* even when there is a single option.
scrap_asset_select_always_asking(st, r, assetdata_list, local_asset_path, outcome) ==
    IF st.asset_selection_mode = SCRAPE_MANUAL
    THEN LET local_asset_in_list_flag == local_asset_path # NoPath
             ListItem_list == IF local_asset_in_list_flag
                              THEN <<LocalAssetData>> \o assetdata_list
                              ELSE assetdata_list
             image_selected_index == IF outcome.answer < 0 THEN 0 ELSE outcome.answer
             r1 == [r EXCEPT !.dialogs = @ \o <<"select">>,
                             !.selected = ListItem_list[image_selected_index + 1]]
         IN IF local_asset_in_list_flag /\ image_selected_index = 0
            THEN r1
            ELSE scrap_asset_resolve(r1, outcome)
    ELSE IF st.asset_selection_mode = SCRAPE_AUTOMATIC
    THEN scrap_asset_resolve([r EXCEPT !.selected = assetdata_list[1]], outcome)
    ELSE [r EXCEPT !.raised = TRUE, !.ret = NotReturned]

\* _scanner_scrap_ROM_asset from the choice of the asset on.
scrap_asset_select(st, r, assetdata_list, local_asset_path, outcome) ==
    IF st.asset_selection_mode = SCRAPE_MANUAL
    THEN LET local_asset_in_list_flag == local_asset_path # NoPath
             ListItem_list == IF local_asset_in_list_flag
                              THEN <<LocalAssetData>> \o assetdata_list
                              ELSE assetdata_list
             shown == Len(ListItem_list) # 1
             image_selected_index ==
                 IF ~shown THEN 0
                 ELSE IF outcome.answer < 0 THEN 0 ELSE outcome.answer
             r1 == [r EXCEPT !.dialogs = @ \o (IF shown THEN <<"select">> ELSE <<>>),
                             !.selected = ListItem_list[image_selected_index + 1]]
         IN IF local_asset_in_list_flag /\ image_selected_index = 0
            THEN r1
            ELSE scrap_asset_resolve(r1, outcome)
    ELSE IF st.asset_selection_mode = SCRAPE_AUTOMATIC
    THEN scrap_asset_resolve([r EXCEPT !.selected = assetdata_list[1]], outcome)
    ELSE [r EXCEPT !.raised = TRUE, !.ret = NotReturned]

\* Variant of _scanner_scrap_ROM_asset that asks the scraper for assets without
\* looking at the candidate or at what the scraper supports.
_scanner_scrap_ROM_asset_without_checks(st, s, id, local_asset_path, outcome) ==
    LET g == get_assets(s, new_status_dic("No error"), outcome)
        r1 == [scraper |-> g.scraper, ret |-> local_asset_path,
               calls |-> <<"_scanner_scrap_ROM_asset", "supports_asset_ID", "get_assets">>,
               dialogs |-> status_dialog(g.status_dic),
               transport |-> g.transport,
               got |-> IF g.is_none THEN None
                       ELSE IF g.list = <<>> THEN "[]" ELSE "list",
               selected |-> None, download_raised |-> FALSE, raised |-> FALSE]
    IN IF g.is_none \/ g.list = <<>> THEN r1
       ELSE scrap_asset_select(st, r1, g.list, local_asset_path, outcome)

\* _scanner_scrap_ROM_asset(asset_info, local_asset_path, ROM) with the asset
\* scraper s: the scraper afterwards, the path returned, the functions called
\* in order, the dialogs shown, the requests made, what get_assets gave, the
\* asset selected and whether an exception was raised.
_scanner_scrap_ROM_asset(st, s, id, local_asset_path, outcome) ==
    LET idle == [scraper |-> s, ret |-> local_asset_path,
                 calls |-> <<"_scanner_scrap_ROM_asset">>, dialogs |-> <<>>,
                 transport |-> 0, got |-> NotReturned, selected |-> None,
                 download_raised |-> FALSE, raised |-> FALSE]
    IN IF s.candidate = None THEN idle
       ELSE IF ~Truthy(s.candidate) THEN idle
       ELSE IF id \notin st.asset_scraper_supports
       THEN [idle EXCEPT !.calls = Append(@, "supports_asset_ID")]
       ELSE LET g == get_assets(s, new_status_dic("No error"), outcome)
                r1 == [idle EXCEPT
                          !.scraper = g.scraper,
                          !.calls = @ \o <<"supports_asset_ID", "get_assets">>,
                          !.transport = g.transport,
                          !.dialogs = status_dialog(g.status_dic),
                          !.got = IF g.is_none THEN None
                                  ELSE IF g.list = <<>> THEN "[]" ELSE "list"]
            IN IF g.is_none \/ g.list = <<>> THEN r1
               ELSE scrap_asset_select(st, r1, g.list, local_asset_path, outcome)

\* Whether the loop of _scanner_process_ROM_assets leaves out an asset whose
\* action is not ACTION_ASSET_NONE: the ROM has it and it is not to be
\* overwritten.
asset_skipped_never(st, r, id) == FALSE

asset_skipped(st, r, id) == ~st.overwrite_existing /\ has_asset(r, id)

\* The loop of _scanner_process_ROM_assets from the i-th enabled asset on; acc
\* holds the scraper and the ROM so far and, per asset, what was observed.
RECURSIVE process_ROM_assets_loop(_, _, _, _)
process_ROM_assets_loop(st, acc, outcomes, i) ==
    IF i > Len(st.enabled_asset_list) \/ acc.raised THEN acc
    ELSE LET id == st.enabled_asset_list[i]
             action == st.asset_action_list[id]
         IN IF action = ACTION_ASSET_NONE
            THEN process_ROM_assets_loop(st, acc, outcomes, i + 1)
            ELSE IF asset_skipped(st, acc.rom, id)
            THEN process_ROM_assets_loop(st, acc, outcomes, i + 1)
            ELSE IF action = ACTION_ASSET_LOCAL_ASSET
            THEN process_ROM_assets_loop(st,
                     [acc EXCEPT !.rom = set_asset(@, id, st.local_asset_list[id]),
                                 !.asset_calls[id] = <<"set_asset">>],
                     outcomes, i + 1)
            ELSE IF action = ACTION_ASSET_SCRAPER
            THEN LET x == _scanner_scrap_ROM_asset(st, acc.scraper, id,
                                                   st.local_asset_list[id], outcomes[id])
                     setter == IF id = ASSET_TRAILER_ID THEN "set_trailer" ELSE "set_asset"
                     acc1 == [acc EXCEPT !.scraper = x.scraper,
                                         !.asset_calls[id] = x.calls,
                                         !.asset_ret[id] = x.ret,
                                         !.asset_got[id] = x.got,
                                         !.asset_selected[id] = x.selected,
                                         !.asset_dialogs[id] = x.dialogs,
                                         !.asset_download_raised[id] = x.download_raised,
                                         !.transport = @ + x.transport,
                                         !.raised = x.raised]
                 IN IF x.raised THEN acc1
                    ELSE process_ROM_assets_loop(st,
                             [acc1 EXCEPT
                                 !.rom = IF id = ASSET_TRAILER_ID
                                         THEN set_trailer(@, x.ret)
                                         ELSE set_asset(@, id, x.ret),
                                 !.asset_calls[id] = Append(@, setter)],
                             outcomes, i + 1)
            ELSE [acc EXCEPT !.raised = TRUE]

\* _scanner_process_ROM_assets(ROM).
_scanner_process_ROM_assets(st, s, r, outcomes) ==
    LET acc == [scraper |-> s, rom |-> r,
                asset_calls |-> [id \in AssetIds |-> <<>>],
                asset_ret |-> [id \in AssetIds |-> NotReturned],
                asset_got |-> [id \in AssetIds |-> NotReturned],
                asset_selected |-> [id \in AssetIds |-> None],
                asset_dialogs |-> [id \in AssetIds |-> <<>>],
                asset_download_raised |-> [id \in AssetIds |-> FALSE],
                transport |-> 0, raised |-> FALSE]
    IN IF \A id \in DOMAIN st.asset_action_list :
             st.asset_action_list[id] = ACTION_ASSET_NONE
       THEN acc
       ELSE process_ROM_assets_loop(st, acc, outcomes, 1)

-----------------------------------------------------------------------------
(* ScrapeStrategy.scanner_process_ROM: the work on one ROM of a scan.  The   *)
(* metadata scraper object is ms; the asset scraper object is as when it is *)
(* another object, and ms itself when meta_and_asset_scraper_same.  The      *)
(* inputs i are what the environment gives during the call: whether an NFO  *)
(* file exists, the local assets found, and what the network answers to     *)
(* each request.                                                            *)

\* constants.SCRAPE_ACTION_NONE: the policy that switches a side off.
SCRAPE_ACTION_NONE == "SCRAPE_ACTION_NONE"

\* The names of the scraper operations that go to the provider.
ProviderOperations ==
    {"get_candidates", "get_metadata", "get_assets", "resolve_asset_URL",
     "resolve_asset_URL_extension", "download_image"}

\* The calls made for the assets of the enabled list, in the order of the list.
RECURSIVE asset_calls_in_order(_, _, _)
asset_calls_in_order(asset_list, asset_calls, i) ==
    IF i > Len(asset_list) THEN <<>>
    ELSE asset_calls[asset_list[i]] \o asset_calls_in_order(asset_list, asset_calls, i + 1)

\* Lines 341-345: the metadata action and the asset actions are planned.
process_ROM_begin(a, i) ==
    LET st == a.strategy
        meta_on == st.scrape_metadata_policy # SCRAPE_ACTION_NONE
        assets_on == st.scrape_assets_policy # SCRAPE_ACTION_NONE
        meta_raises == meta_on /\ _scanner_process_ROM_metadata_begin_raises(st)
        st1 == IF meta_on THEN _scanner_process_ROM_metadata_begin(st, i.nfo) ELSE st
    IN IF meta_raises THEN [a EXCEPT !.strategy = st1, !.raised = TRUE]
       ELSE IF ~assets_on THEN [a EXCEPT !.strategy = st1]
       ELSE [a EXCEPT !.strategy = _scanner_process_ROM_assets_begin(st1, i.found),
                      !.raised = _scanner_process_ROM_assets_begin_raises(st1)]

\* Whether lines 363-365 resolve a candidate on the metadata scraper, and
\* whether lines 369-372 resolve one on the asset scraper.
meta_candidate_resolved(st) ==
    /\ st.scrape_metadata_policy # SCRAPE_ACTION_NONE
    /\ st.metadata_action = ACTION_META_SCRAPER
asset_candidate_resolved(st) ==
    /\ st.scrape_assets_policy # SCRAPE_ACTION_NONE
    /\ ~st.meta_and_asset_scraper_same
    /\ ~(st.scrape_metadata_policy # SCRAPE_ACTION_NONE)

\* Lines 354-376: the candidates are resolved.  (The result of each call is
\* bound once, as the only element of a set.)
process_ROM_meta_candidate(a, d, key, i) ==
    IF a.raised \/ ~meta_candidate_resolved(a.strategy) THEN a
    ELSE CHOOSE a1 \in
             {[a EXCEPT !.meta_scraper = c.scraper,
                        !.meta_calls = @ \o c.calls,
                        !.meta_transport = @ + c.transport,
                        !.dialogs = @ \o c.dialogs,
                        !.raised = c.raised] :
                 c \in {_scanner_get_candidate(a.strategy, a.meta_scraper, d,
                                               new_status_dic("No error"),
                                               key, i.search, i.answer)}} : TRUE
process_ROM_asset_candidate(a, d, key, i) ==
    IF a.raised \/ ~asset_candidate_resolved(a.strategy) THEN a
    ELSE IF ~a.strategy.has_asset_scraper_obj THEN [a EXCEPT !.raised = TRUE]
    ELSE CHOOSE a1 \in
             {[a EXCEPT !.asset_scraper = e.scraper,
                        !.asset_calls = @ \o e.calls,
                        !.asset_transport = @ + e.transport,
                        !.dialogs = @ \o e.dialogs,
                        !.raised = e.raised] :
                 e \in {_scanner_get_candidate(a.strategy, a.asset_scraper, d,
                                               new_status_dic("No error"),
                                               key, i.asset_search, i.answer)}} : TRUE
process_ROM_candidates(a, d, key, i) ==
    CHOOSE a2 \in {process_ROM_asset_candidate(a1, d, key, i) :
                      a1 \in {process_ROM_meta_candidate(a, d, key, i)}} : TRUE

\* Lines 378-379: the metadata action is executed.
process_ROM_metadata(a, i) ==
    IF a.raised \/ a.strategy.scrape_metadata_policy = SCRAPE_ACTION_NONE THEN a
    ELSE CHOOSE a1 \in
             {[a EXCEPT !.meta_scraper = m.scraper,
                        !.rom = m.rom,
                        !.meta_calls = @ \o m.calls,
                        !.meta_transport = @ + m.transport,
                        !.dialogs = @ \o m.dialogs,
                        !.raised = m.raised] :
                 m \in {_scanner_process_ROM_metadata(a.strategy, a.meta_scraper,
                                                      a.rom, i.metadata)}} : TRUE

\* Lines 381-382: the asset actions are executed, on the metadata scraper
\* object when it is the asset scraper too.
process_ROM_assets(a, i) ==
    IF a.raised \/ a.strategy.scrape_assets_policy = SCRAPE_ACTION_NONE THEN a
    ELSE IF a.strategy.meta_and_asset_scraper_same
    THEN CHOOSE a1 \in
             {[a EXCEPT !.meta_scraper = x.scraper,
                        !.rom = x.rom,
                        !.meta_calls = @ \o asset_calls_in_order(
                                               a.strategy.enabled_asset_list,
                                               x.asset_calls, 1),
                        !.meta_transport = @ + x.transport,
                        !.dialogs = @ \o asset_calls_in_order(
                                             a.strategy.enabled_asset_list,
                                             x.asset_dialogs, 1),
                        !.raised = x.raised] :
                 x \in {_scanner_process_ROM_assets(a.strategy, a.meta_scraper,
                                                    a.rom, i.assets)}} : TRUE
    ELSE CHOOSE a1 \in
             {[a EXCEPT !.asset_scraper = x.scraper,
                        !.rom = x.rom,
                        !.asset_calls = @ \o asset_calls_in_order(
                                                a.strategy.enabled_asset_list,
                                                x.asset_calls, 1),
                        !.asset_transport = @ + x.transport,
                        !.dialogs = @ \o asset_calls_in_order(
                                             a.strategy.enabled_asset_list,
                                             x.asset_dialogs, 1),
                        !.raised = x.raised] :
                 x \in {_scanner_process_ROM_assets(a.strategy, a.asset_scraper,
                                                    a.rom, i.assets)}} : TRUE

\* scanner_process_ROM(ROM, ROM_checksums) begins with the strategy st, the
\* scraper objects ms and as and the ROM r, and nothing observed yet: no call
\* on a scraper object, no request, no dialog, no exception.
scanner_process_ROM_entry(st, ms, as, r) ==
    [strategy |-> st, meta_scraper |-> ms, asset_scraper |-> as, rom |-> r,
     meta_calls |-> <<>>, asset_calls |-> <<>>,
     meta_transport |-> 0, asset_transport |-> 0,
     dialogs |-> <<>>, raised |-> FALSE]

-----------------------------------------------------------------------------
(* The initial state and the operations.                                    *)

NoKey == 0
NoPlatform == "unset"

\* Scraper.__init__
NewScraper(supports_disk_cache) ==
    [disk_caches |-> [cache_name \in CacheKinds |-> EmptyCache],
     disk_caches_loaded |-> [cache_name \in CacheKinds |-> FALSE],
     disk_caches_dirty |-> [cache_name \in CacheKinds |-> FALSE],
     loads |-> [cache_name \in CacheKinds |-> 0],
     last_http_call |-> 0,
     candidate |-> None,
     cache_key |-> NoKey,
     platform |-> NoPlatform,
     exception_counter |-> 0,
     scraper_disabled |-> FALSE,
     supports_disk_cache |-> supports_disk_cache]

\* The cache files found on disk at start: for platform P1 the candidates file
\* and the three other files are each missing or hold one entry, for key 1.
InitDisk(cand_file, other_files) ==
    [f \in Platforms \X CacheKinds |->
        IF f[1] # "P1" THEN NoFile
        ELSE IF f[2] = CACHE_CANDIDATES
        THEN (IF cand_file THEN File(<< <<1, GameIds[1]>> >>) ELSE NoFile)
        ELSE (IF other_files THEN File(<< <<1, "data">> >>) ELSE NoFile)]

\* A ScrapeStrategy object: the settings, the scrapers it was given and the
\* attributes the planning functions assign.
NewStrategy ==
    [platform |-> "P1",
     game_selection_mode |-> SCRAPE_AUTOMATIC,
     scrape_metadata_policy |-> SCRAPE_POLICY_TITLE_ONLY,
     scrape_assets_policy |-> SCRAPE_POLICY_LOCAL_ONLY,
     has_meta_scraper_obj |-> TRUE,
     has_asset_scraper_obj |-> TRUE,
     asset_scraper_supports |-> {},
     enabled_asset_list |-> <<>>,
     metadata_action |-> Unset,
     local_asset_list |-> EmptyCache,
     asset_action_list |-> EmptyCache,
     scan_ignore_scrap_title |-> FALSE,
     scan_update_NFO_files |-> FALSE,
     overwrite_existing |-> FALSE,
     asset_selection_mode |-> SCRAPE_AUTOMATIC,
     meta_and_asset_scraper_same |-> TRUE]

NoOp ==
    [op |-> "__init__", calls |-> <<>>,
     transport |-> 0, dialogs |-> <<>>, written |-> <<>>, use_from_cache |-> FALSE,
     is_none |-> FALSE, list |-> <<>>, raised |-> FALSE, value |-> None,
     nfo |-> FALSE, found |-> {}, before |-> <<>>, purged |-> {},
     gamedata |-> NoGameData, asset_calls |-> EmptyCache, asset_ret |-> EmptyCache,
     answer |-> NoIndex,
     asset_got |-> EmptyCache, asset_selected |-> EmptyCache,
     asset_dialogs |-> EmptyCache, asset_download_raised |-> EmptyCache,
     existing |-> {}, focus |-> None, outcome |-> IdleAssetOutcome]

\* The scan before scanner_process_launcher is called: nothing returned, no
\* ROM attempted, the progress dialog neither started nor ended.  items holds
\* the ROM objects of the launcher by basename, asset_scraper the asset scraper
\* object when it is not the metadata scraper object, and item what was
\* observed while the last ROM was processed.
\* No FilterROM object has been built.
NoFilter ==
    [scan_ignore_bios |-> FALSE, platform |-> NoPlatform,
     BIOS_set |-> {}, Devices_set |-> {}, Mechanical_set |-> {}]
NoItem ==
    [key |-> NoKey, meta_calls |-> <<>>, asset_calls |-> <<>>,
     meta_transport |-> 0, asset_transport |-> 0, raised |-> FALSE,
     canceled |-> FALSE]
NoScan ==
    [pc |-> "idle", roms |-> <<>>, pos |-> 0,
     items |-> [key \in Keys |-> NewROM],
     attempted |-> <<>>, warnings |-> <<>>,
     returned |-> FALSE, returned_none |-> FALSE,
     startProgress |-> 0, endProgress |-> 0, polls |-> 0, dialogs |-> <<>>,
     asset_scraper |-> NewScraper(TRUE),
     checked |-> FALSE, check_failed |-> {},
     item |-> NoItem, history |-> <<>>, filter |-> NoFilter, clock |-> 0]

Init ==
    /\ scraper = NewScraper(TRUE)
    /\ session = 0
    /\ \E cand_file, other_files \in BOOLEAN : disk = InitDisk(cand_file, other_files)
    /\ status_dic = new_status_dic("No error")
    /\ \E mode \in {SCRAPE_AUTOMATIC, SCRAPE_MANUAL} :
          strategy = [NewStrategy EXCEPT !.game_selection_mode = mode]
    /\ rom = NewROM
    /\ scan = NoScan
    /\ last = NoOp

\* ScrapeStrategy._scanner_get_candidate(ROM, ..., scraper_obj, status_dic), the
\* status dictionary being a fresh one as in scanner_process_ROM.
ScannerGetCandidate ==
    \E key \in Keys, outcome \in SearchOutcomes, answer \in (0 - 1) .. (MaxCandidates - 1) :
        /\ outcome.error => scraper.exception_counter < MaxSearchErrors
        /\ answer < Len(outcome.list)
        /\ ~select_dialog_shown(strategy.game_selection_mode, outcome.list) => answer = 0 - 1
        /\ \E r \in {_scanner_get_candidate(strategy, scraper, disk,
                                           new_status_dic("No error"), key, outcome, answer)} :
              /\ scraper' = r.scraper
              /\ status_dic' = r.status_dic
              /\ last' = [NoOp EXCEPT !.op = "_scanner_get_candidate",
                                      !.calls = r.calls, !.transport = r.transport,
                                      !.dialogs = r.dialogs,
                                      !.use_from_cache = r.use_from_cache,
                                      !.is_none = r.is_none, !.list = r.list,
                                      !.raised = r.raised, !.answer = answer]
        /\ UNCHANGED <<scan, rom, session, disk, strategy>>

\* Scraper.set_candidate(rom_FN, platform, candidate) called directly, with the
\* platform of the launcher being scanned.
SetCandidate ==
    \E key \in Keys, candidate \in {None, EmptyDict} \cup CandidateDics :
        /\ scraper' = set_candidate(scraper, disk, key, strategy.platform, candidate)
        /\ last' = [NoOp EXCEPT !.op = "set_candidate", !.value = candidate]
        /\ UNCHANGED <<scan, rom, session, disk, status_dic, strategy>>

Next ==
    \/ ScannerGetCandidate
    \/ SetCandidate

Spec == Init /\ [][Next]_vars

-----------------------------------------------------------------------------
(* The cache interface of one scraper used directly for the ROMs of one      *)
(* platform, across sessions: every public cache function in any order.     *)

CachePlatforms == {"P1"}

\* The candidates stored through the cache interface.
StoredCandidates == {GameIds[1]}

InitCache ==
    /\ \E supports \in BOOLEAN : scraper = NewScraper(supports)
    /\ session = 0
    /\ disk = InitDisk(FALSE, TRUE)
    /\ status_dic = new_status_dic("No error")
    /\ strategy = NewStrategy
    /\ rom = NewROM
    /\ scan = NoScan
    /\ last = NoOp

\* Scraper.check_candidates_cache(rom_FN, platform)
CheckCandidatesCache ==
    \E key \in Keys, platform \in CachePlatforms :
        /\ scraper' = check_candidates_cache(scraper, disk, key, platform)
        /\ last' = [NoOp EXCEPT !.op = "check_candidates_cache",
                                !.use_from_cache =
                                    check_candidates_cache_ret(scraper, disk, key, platform)]
        /\ UNCHANGED <<scan, rom, session, disk, status_dic, strategy>>

\* Scraper.retrieve_from_candidates_cache(rom_FN, platform), called as
\* _scanner_get_candidate calls it: right after a check_candidates_cache that
\* found the key, for the same key and platform.
RetrieveFromCandidatesCache ==
    \E key \in Keys, platform \in CachePlatforms :
        /\ last.op = "check_candidates_cache"
        /\ last.use_from_cache
        /\ key = scraper.cache_key
        /\ platform = scraper.platform
        /\ scraper' = retrieve_from_candidates_cache(scraper, key, platform)
        /\ last' = [NoOp EXCEPT !.op = "retrieve_from_candidates_cache",
                                !.use_from_cache = TRUE,
                                !.value = retrieve_from_candidates_cache_ret(
                                              scraper, key, platform)]
        /\ UNCHANGED <<scan, rom, session, disk, status_dic, strategy>>

\* Scraper.set_candidate_from_cache(rom_FN, platform), called as
\* _scanner_get_candidate calls it: right after a check_candidates_cache that
\* found the key, for the same key and platform.
SetCandidateFromCache ==
    \E key \in Keys, platform \in CachePlatforms :
        /\ last.op \in {"check_candidates_cache", "retrieve_from_candidates_cache"}
        /\ last.use_from_cache
        /\ key = scraper.cache_key
        /\ platform = scraper.platform
        /\ scraper' = set_candidate_from_cache(scraper, key, platform)
        /\ last' = [NoOp EXCEPT !.op = "set_candidate_from_cache"]
        /\ UNCHANGED <<scan, rom, session, disk, status_dic, strategy>>

\* Scraper.set_candidate(rom_FN, platform, candidate)
SetCandidateOn ==
    \E key \in Keys, platform \in CachePlatforms, candidate \in StoredCandidates :
        /\ scraper' = set_candidate(scraper, disk, key, platform, candidate)
        /\ last' = [NoOp EXCEPT !.op = "set_candidate", !.value = candidate]
        /\ UNCHANGED <<scan, rom, session, disk, status_dic, strategy>>

\* Scraper.clear_cache(rom_FN, platform)
ClearCache ==
    \E key \in Keys, platform \in CachePlatforms :
        /\ scraper' = clear_cache(scraper, disk, key, platform)
        /\ last' = [NoOp EXCEPT !.op = "clear_cache",
                                !.purged = {cache_type \in CacheKinds :
                                    _check_disk_cache_ret(
                                        [scraper EXCEPT !.platform = platform],
                                        disk, cache_type, key)}]
        /\ UNCHANGED <<scan, rom, session, disk, status_dic, strategy>>

\* Scraper._update_disk_cache(CACHE_METADATA, self.cache_key, data), as the
\* concrete scrapers store what they fetched for the current item.
UpdateDiskCache ==
    \E data \in CachedData :
        /\ scraper.cache_key # NoKey
        /\ scraper' = _update_disk_cache(scraper, disk, CACHE_METADATA,
                                         scraper.cache_key, data)
        /\ last' = [NoOp EXCEPT !.op = "_update_disk_cache", !.value = data]
        /\ UNCHANGED <<scan, rom, session, disk, status_dic, strategy>>

\* Scraper._check_disk_cache(CACHE_METADATA, self.cache_key) followed, when the
\* key is found, by _retrieve_from_disk_cache, as the concrete scrapers look up
\* what they stored for the current item.
CheckDiskCache ==
    /\ scraper.cache_key # NoKey
    /\ scraper' = _check_disk_cache(scraper, disk, CACHE_METADATA)
    /\ \E hit \in {_check_disk_cache_ret(scraper, disk, CACHE_METADATA, scraper.cache_key)} :
          last' = [NoOp EXCEPT
                     !.op = "_check_disk_cache",
                     !.use_from_cache = hit,
                     !.value = IF hit
                               THEN _retrieve_from_disk_cache(scraper', CACHE_METADATA,
                                                              scraper.cache_key)
                               ELSE None]
    /\ UNCHANGED <<scan, rom, session, disk, status_dic, strategy>>

\* Scraper.flush_disk_cache()
FlushDiskCache ==
    \E r \in {flush_disk_cache(scraper, disk)} :
       /\ scraper' = r.scraper
       /\ disk' = r.disk
       /\ last' = [NoOp EXCEPT !.op = "flush_disk_cache", !.written = r.written,
                               !.before = last.written]
       /\ UNCHANGED <<scan, rom, session, status_dic, strategy>>

\* A new session, the caller having flushed the caches at the end of the last
\* one: a new Scraper object of the same class over the same files.
NewSession ==
    /\ session < MaxSessions
    /\ last.op = "flush_disk_cache"
    /\ session' = session + 1
    /\ scraper' = NewScraper(scraper.supports_disk_cache)
    /\ last' = NoOp
    /\ UNCHANGED <<scan, rom, disk, status_dic, strategy>>

NextCache ==
    \/ CheckCandidatesCache
    \/ RetrieveFromCandidatesCache
    \/ SetCandidateFromCache
    \/ SetCandidateOn
    \/ ClearCache
    \/ UpdateDiskCache
    \/ CheckDiskCache
    \/ FlushDiskCache
    \/ NewSession

SpecCache == InitCache /\ [][NextCache]_vars

-----------------------------------------------------------------------------
(* The error accounting of one scraper: errors recorded by any of its       *)
(* methods, searches made before and after it is disabled, and candidates   *)
(* set in between.                                                          *)

InitBreaker ==
    /\ scraper = NewScraper(TRUE)
    /\ session = 0
    /\ disk = InitDisk(FALSE, FALSE)
    /\ status_dic = new_status_dic("No error")
    /\ strategy = NewStrategy
    /\ rom = NewROM
    /\ scan = NoScan
    /\ last = NoOp

\* Scraper._handle_error(status_dic, user_msg) on a fresh status dictionary.
HandleError ==
    \E user_msg \in {ERR_SEARCH, "Error in get_metadata()"} :
        /\ scraper.exception_counter < MaxErrors
        /\ \E h \in {_handle_error(scraper, new_status_dic("No error"), user_msg)} :
              /\ scraper' = h.scraper
              /\ status_dic' = h.status_dic
        /\ last' = [NoOp EXCEPT !.op = "_handle_error", !.value = user_msg]
        /\ UNCHANGED <<scan, rom, session, disk, strategy>>

\* Scraper.get_candidates(...) on a fresh status dictionary.
GetCandidates ==
    \E outcome \in SearchOutcomes :
        /\ outcome.error => scraper.exception_counter < MaxErrors
        /\ \E g \in {get_candidates(scraper, new_status_dic("No error"), outcome)} :
              /\ scraper' = g.scraper
              /\ status_dic' = g.status_dic
              /\ last' = [NoOp EXCEPT !.op = "get_candidates",
                                      !.transport = g.transport,
                                      !.is_none = g.is_none, !.list = g.list]
        /\ UNCHANGED <<scan, rom, session, disk, strategy>>

NextBreaker ==
    \/ HandleError
    \/ GetCandidates
    \/ SetCandidate

SpecBreaker == InitBreaker /\ [][NextBreaker]_vars

-----------------------------------------------------------------------------
(* Planning alone: the two planning functions applied to ROMs under every   *)
(* combination of settings.                                                 *)

InitPlan ==
    /\ scraper = NewScraper(TRUE)
    /\ session = 0
    /\ disk = InitDisk(FALSE, FALSE)
    /\ status_dic = new_status_dic("No error")
    /\ \E mp \in MetadataPolicies \cup {SCRAPE_POLICY_OTHER},
          ap \in AssetPolicies \cup {SCRAPE_POLICY_OTHER},
          hm, ha \in BOOLEAN,
          enabled, supports \in SUBSET AssetIds :
          strategy = [NewStrategy EXCEPT
                         !.scrape_metadata_policy = mp,
                         !.scrape_assets_policy = ap,
                         !.has_meta_scraper_obj = hm,
                         !.has_asset_scraper_obj = ha,
                         !.asset_scraper_supports = supports,
                         !.enabled_asset_list = AssetList(enabled, 1)]
    /\ rom = NewROM
    /\ scan = NoScan
    /\ last = NoOp

\* ScrapeStrategy._scanner_process_ROM_metadata_begin(ROM)
MetadataBegin ==
    \E NFO_file_found \in BOOLEAN :
        /\ strategy' = _scanner_process_ROM_metadata_begin(strategy, NFO_file_found)
        /\ last' = [NoOp EXCEPT !.op = "_scanner_process_ROM_metadata_begin",
                                !.nfo = NFO_file_found,
                                !.raised = _scanner_process_ROM_metadata_begin_raises(strategy)]
        /\ UNCHANGED <<scan, rom, scraper, session, disk, status_dic>>

\* ScrapeStrategy._scanner_process_ROM_assets_begin(ROM)
AssetsBegin ==
    \E found \in SUBSET ListIds(strategy.enabled_asset_list) :
        /\ strategy' = _scanner_process_ROM_assets_begin(strategy, found)
        /\ last' = [NoOp EXCEPT !.op = "_scanner_process_ROM_assets_begin",
                                !.found = found,
                                !.raised = _scanner_process_ROM_assets_begin_raises(strategy)]
        /\ UNCHANGED <<scan, rom, scraper, session, disk, status_dic>>

NextPlan ==
    \/ MetadataBegin
    \/ AssetsBegin

SpecPlan == InitPlan /\ [][NextPlan]_vars

-----------------------------------------------------------------------------
(* One scraper object used for two platforms: candidates are stored for     *)
(* ROMs of the first platform only, the cache is checked for ROMs of both,  *)
(* and the caches are flushed.  No cache file exists at the start.          *)

StorePlatform == "P1"
OtherPlatform == "P2"

InitPlatforms ==
    /\ scraper = NewScraper(TRUE)
    /\ session = 0
    /\ disk = InitDisk(FALSE, FALSE)
    /\ status_dic = new_status_dic("No error")
    /\ strategy = NewStrategy
    /\ rom = NewROM
    /\ scan = NoScan
    /\ last = NoOp

\* Scraper.set_candidate(rom_FN, platform, candidate) for a ROM of the first
\* platform.
SetCandidateStorePlatform ==
    \E key \in Keys, candidate \in {EmptyDict} \cup CandidateDics :
        /\ scraper' = set_candidate(scraper, disk, key, StorePlatform, candidate)
        /\ last' = [NoOp EXCEPT !.op = "set_candidate", !.value = candidate]
        /\ UNCHANGED <<scan, rom, session, disk, status_dic, strategy>>

\* Scraper.check_candidates_cache(rom_FN, platform) followed, when it finds
\* the key, by retrieve_from_candidates_cache, for a ROM of either platform.
CheckCandidatesCacheAnyPlatform ==
    \E key \in Keys, platform \in Platforms :
        /\ scraper' = check_candidates_cache(scraper, disk, key, platform)
        /\ \E hit \in {check_candidates_cache_ret(scraper, disk, key, platform)} :
              last' = [NoOp EXCEPT
                         !.op = "check_candidates_cache",
                         !.use_from_cache = hit,
                         !.value = IF hit
                                   THEN retrieve_from_candidates_cache_ret(
                                            scraper', key, platform)
                                   ELSE None]
        /\ UNCHANGED <<scan, rom, session, disk, status_dic, strategy>>

NextPlatforms ==
    \/ SetCandidateStorePlatform
    \/ CheckCandidatesCacheAnyPlatform
    \/ FlushDiskCache

SpecPlatforms == InitPlatforms /\ [][NextPlatforms]_vars

-----------------------------------------------------------------------------
(* Execution of the metadata action on the ROMs of a scan: for each ROM a   *)
(* candidate is set on the metadata scraper and the action planned for the  *)
(* scan is executed.                                                        *)

InitMetadata ==
    /\ scraper = NewScraper(TRUE)
    /\ session = 0
    /\ disk = InitDisk(FALSE, FALSE)
    /\ status_dic = new_status_dic("No error")
    /\ \E action \in {ACTION_META_NONE, ACTION_META_TITLE_ONLY,
                      ACTION_META_NFO_FILE, ACTION_META_SCRAPER},
          ignore_title, update_NFO \in BOOLEAN :
          strategy = [NewStrategy EXCEPT !.metadata_action = action,
                                         !.scan_ignore_scrap_title = ignore_title,
                                         !.scan_update_NFO_files = update_NFO]
    /\ rom = NewROM
    /\ scan = NoScan
    /\ last = NoOp

\* The scanner takes the next ROM, and a candidate is set for it.
NextROM ==
    \E candidate \in {None, EmptyDict, GameIds[1]} :
        /\ last.op # "__init__" => last.op = "_scanner_process_ROM_metadata"
        /\ scraper' = set_candidate(scraper, disk, 1, strategy.platform, candidate)
        /\ rom' = NewROM
        /\ last' = [NoOp EXCEPT !.op = "set_candidate", !.value = candidate]
        /\ UNCHANGED <<scan, session, disk, status_dic, strategy>>

\* ScrapeStrategy._scanner_process_ROM_metadata(ROM)
ProcessROMMetadata ==
    \E outcome \in MetadataOutcomes :
        /\ last.op = "set_candidate"
        /\ (\/ strategy.metadata_action # ACTION_META_SCRAPER
            \/ ~Truthy(scraper.candidate)
            \/ scraper.scraper_disabled) => outcome.error
        /\ \E m \in {_scanner_process_ROM_metadata(strategy, scraper, rom, outcome)} :
              /\ scraper' = m.scraper
              /\ status_dic' = m.status_dic
              /\ rom' = m.rom
              /\ last' = [NoOp EXCEPT !.op = "_scanner_process_ROM_metadata",
                                      !.calls = m.calls, !.transport = m.transport,
                                      !.dialogs = m.dialogs, !.gamedata = m.gamedata,
                                      !.raised = m.raised]
        /\ UNCHANGED <<scan, session, disk, strategy>>

NextMetadata ==
    \/ NextROM
    \/ ProcessROMMetadata

SpecMetadata == InitMetadata /\ [][NextMetadata]_vars

-----------------------------------------------------------------------------
(* Execution of the asset actions on the ROMs of a scan: for each ROM the   *)
(* asset actions are planned, a candidate is set on the asset scraper and   *)
(* the actions are executed.                                                *)

InitAssets ==
    /\ scraper = NewScraper(TRUE)
    /\ session = 0
    /\ disk = InitDisk(FALSE, FALSE)
    /\ status_dic = new_status_dic("No error")
    /\ \E policy \in AssetPolicies, enabled, supports \in SUBSET AssetIds,
          overwrite \in BOOLEAN, mode \in {SCRAPE_AUTOMATIC, SCRAPE_MANUAL} :
          strategy = [NewStrategy EXCEPT
                         !.scrape_assets_policy = policy,
                         !.asset_scraper_supports = supports,
                         !.enabled_asset_list = AssetList(enabled, 1),
                         !.overwrite_existing = overwrite,
                         !.asset_selection_mode = mode]
    /\ rom = NewROM
    /\ scan = NoScan
    /\ last = NoOp

\* The answer of the chooser is that of a chooser shown: it is -1 (cancelled)
\* or the index of an option when the chooser is opened, on the assets found
\* preceded by the local asset if there is one, and -1 when it is not opened.
AnswerFits(st, local_asset_path, outcome) ==
    LET options == outcome.n + (IF local_asset_path # NoPath THEN 1 ELSE 0)
        shown == /\ st.asset_selection_mode = SCRAPE_MANUAL
                 /\ ~outcome.error
                 /\ outcome.n > 0
                 /\ options # 1
    IN IF shown THEN outcome.answer < options ELSE outcome.answer = 0 - 1

\* Whether executing the actions of the ROM r reaches get_assets for asset id.
ReachesProvider(st, s, r, id) ==
    /\ id \in DOMAIN st.asset_action_list
    /\ st.asset_action_list[id] = ACTION_ASSET_SCRAPER
    /\ ~asset_skipped(st, r, id)
    /\ Truthy(s.candidate)
    /\ id \in st.asset_scraper_supports

\* The scanner takes the next ROM, which has some of its assets already: the
\* asset actions are planned and a candidate is set for it.
AssetsBeginROM ==
    \E found \in SUBSET ListIds(strategy.enabled_asset_list),
       existing \in SUBSET ListIds(strategy.enabled_asset_list),
       candidate \in {None, EmptyDict, GameIds[1]} :
        /\ last.op \in {"__init__", "scanner_process_launcher"}
        /\ strategy' = _scanner_process_ROM_assets_begin(strategy, found)
        /\ scraper' = set_candidate(scraper, disk, 1, strategy.platform, candidate)
        /\ rom' = [NewROM EXCEPT !.assets =
                      [id \in AssetIds |-> IF id \in existing THEN "old" ELSE NoPath]]
        /\ last' = [NoOp EXCEPT !.op = "_scanner_process_ROM_assets_begin",
                                !.found = found, !.existing = existing,
                                !.value = candidate]
        /\ UNCHANGED <<scan, session, disk, status_dic>>

\* The outcomes that can be told apart for the asset id of the ROM: any that
\* fits the chooser when get_assets is reached, the idle one otherwise, and
\* no error once MaxSearchErrors errors were recorded.
OutcomesFor(st, s, reaches, id) ==
    IF ~reaches THEN {IdleAssetOutcome}
    ELSE {o \in AssetOutcomes :
            /\ AnswerFits(st, st.local_asset_list[id], o)
            /\ (o.error \/ o.url = "None" \/ o.ext = "None")
                  => s.exception_counter < MaxSearchErrors}

\* ScrapeStrategy._scanner_process_ROM_assets(ROM).  One asset of the ROM,
\* the focus, has any outcome; the others have the plain one.
ProcessROMAssets ==
    \E focus \in AssetIds,
       outcomes \in {[id \in AssetIds |-> PlainAssetOutcome]} :
      \E outcome \in OutcomesFor(strategy, scraper,
                                 ReachesProvider(strategy, scraper, rom, focus), focus) :
        /\ last.op = "_scanner_process_ROM_assets_begin"
        /\ \E p \in {_scanner_process_ROM_assets(strategy, scraper, rom,
                                [outcomes EXCEPT ![focus] = outcome])} :
              /\ scraper' = p.scraper
              /\ rom' = p.rom
              /\ last' = [NoOp EXCEPT !.op = "_scanner_process_ROM_assets",
                                      !.asset_calls = p.asset_calls,
                                      !.asset_ret = p.asset_ret,
                                      !.asset_got = p.asset_got,
                                      !.asset_selected = p.asset_selected,
                                      !.asset_dialogs = p.asset_dialogs,
                                      !.asset_download_raised = p.asset_download_raised,
                                      !.focus =
                                          IF ReachesProvider(strategy, scraper, rom, focus)
                                          THEN focus ELSE None,
                                      !.outcome = outcome,
                                      !.transport = p.transport,
                                      !.raised = p.raised,
                                      !.existing = last.existing]
        /\ UNCHANGED <<scan, session, disk, status_dic, strategy>>

\* ScrapeStrategy._scanner_scrap_ROM_asset(asset_info, local_asset_path, ROM)
\* applied on its own to an enabled asset that the asset scraper does not
\* support.  The planning never gives such an asset the action
\* ACTION_ASSET_SCRAPER, so _scanner_process_ROM_assets does not make this
\* call; it is how the function answers when it is asked nevertheless.
ScrapROMAsset ==
    \E id \in (ListIds(strategy.enabled_asset_list) \cap DOMAIN strategy.local_asset_list)
                 \ strategy.asset_scraper_supports :
      \E outcome \in OutcomesFor(strategy, scraper, FALSE, id) :
        /\ last.op = "_scanner_process_ROM_assets_begin"
        /\ \E x \in {_scanner_scrap_ROM_asset(strategy, scraper, id,
                                             strategy.local_asset_list[id], outcome)} :
              /\ scraper' = x.scraper
              /\ last' = [NoOp EXCEPT !.op = "_scanner_scrap_ROM_asset",
                                      !.asset_calls = [i \in {id} |-> x.calls],
                                      !.asset_ret = [i \in {id} |-> x.ret],
                                      !.asset_got = [i \in {id} |-> x.got],
                                      !.asset_selected = [i \in {id} |-> x.selected],
                                      !.asset_dialogs = [i \in {id} |-> x.dialogs],
                                      !.asset_download_raised =
                                          [i \in {id} |-> x.download_raised],
                                      !.focus = id, !.outcome = outcome,
                                      !.transport = x.transport,
                                      !.raised = x.raised,
                                      !.existing = last.existing]
        /\ UNCHANGED <<scan, rom, session, disk, status_dic, strategy>>

\* scanner_process_launcher goes on to the next ROM of the list.
AssetsEndROM ==
    /\ last.op \in {"_scanner_process_ROM_assets", "_scanner_scrap_ROM_asset"}
    /\ rom' = NewROM
    /\ last' = [NoOp EXCEPT !.op = "scanner_process_launcher"]
    /\ UNCHANGED <<scan, scraper, session, disk, status_dic, strategy>>

NextAssets ==
    \/ AssetsBeginROM
    \/ AssetsEndROM
    \/ ProcessROMAssets
    \/ ScrapROMAsset

SpecAssets == InitAssets /\ [][NextAssets]_vars

-----------------------------------------------------------------------------
(* FilterROM.  A basename is the sequence of the parts of the file name; the *)
(* filter object f holds the scan_ignore_bios setting, the platform and, on  *)
(* MAME, the three sets loaded from the JSON files.                          *)

PLATFORM_MAME_LONG == "MAME"
BIOS_TAG == "[BIOS]"

\* re.findall('\[BIOS\]', basename): the places of the basename where the
\* text '[BIOS]' stands.
findall_BIOS(basename) ==
    {n \in 1 .. Len(basename) : basename[n] = BIOS_TAG}

\* FilterROM.ROM_is_filtered(basename)
ROM_is_filtered(f, basename) ==
    IF ~f.scan_ignore_bios THEN FALSE
    ELSE IF f.platform = PLATFORM_MAME_LONG
    THEN (basename \in f.BIOS_set \/ basename \in f.Devices_set
          \/ basename \in f.Mechanical_set)
    ELSE findall_BIOS(basename) # {}

\* ROM_file.getBase() of the ROMs of the launcher: the first one is a No-Intro
\* BIOS file.
getBase(key) ==
    IF key = 1 THEN <<BIOS_TAG, " Rom name example (Rev A)", ".zip">>
    ELSE <<"Rom name example", ".zip">>

\* The file names the filter is asked about: No-Intro names with the tag at
\* the start, without it and with it further on, and MAME machine names.
NoIntroBasenames ==
    {<<BIOS_TAG, " Rom name example (Rev A)", ".zip">>,
     <<"Rom name example", ".zip">>,
     <<"Rom name example ", BIOS_TAG, ".zip">>}
MAMEBasenames == {<<"neogeo">>, <<"nec uPD7220">>, <<"pinball">>, <<"pacman">>}
FilterBasenames == NoIntroBasenames \cup MAMEBasenames

\* FilterROM(PATHS, settings, platform): the three sets are loaded from the
\* JSON files on MAME only.
InitFilter ==
    /\ scraper = NewScraper(TRUE)
    /\ session = 0
    /\ disk = InitDisk(FALSE, FALSE)
    /\ status_dic = new_status_dic("No error")
    /\ strategy = NewStrategy
    /\ rom = NewROM
    /\ last = NoOp
    /\ \E scan_ignore_bios \in BOOLEAN, platform \in {PLATFORM_MAME_LONG, "P1"},
          BIOS_set \in {{}, {<<"neogeo">>}},
          Devices_set \in {{}, {<<"nec uPD7220">>}},
          Mechanical_set \in {{}, {<<"pinball">>}} :
         scan = [NoScan EXCEPT
                    !.filter = [scan_ignore_bios |-> scan_ignore_bios,
                                platform |-> platform,
                                BIOS_set |-> IF platform = PLATFORM_MAME_LONG
                                             THEN BIOS_set ELSE {},
                                Devices_set |-> IF platform = PLATFORM_MAME_LONG
                                                THEN Devices_set ELSE {},
                                Mechanical_set |-> IF platform = PLATFORM_MAME_LONG
                                                   THEN Mechanical_set ELSE {}]]

\* FilterROM.ROM_is_filtered(basename): focus is the basename asked about and
\* value what was returned.
ROMIsFiltered ==
    \E basename \in FilterBasenames :
        /\ last' = [NoOp EXCEPT !.op = "ROM_is_filtered",
                                !.focus = basename,
                                !.value = ROM_is_filtered(scan.filter, basename)]
        /\ UNCHANGED <<scraper, session, disk, status_dic, strategy, rom, scan>>

NextFilter ==
    ROMIsFiltered

SpecFilter == InitFilter /\ [][NextFilter]_vars

-----------------------------------------------------------------------------
(* Scraper: the throttle.  Time is counted in milliseconds from the          *)
(* construction of the scraper, where last_http_call is set (line 988);     *)
(* scan.clock is what datetime.now() reads.  A concrete scraper calls the    *)
(* throttle right before a request, so the request goes out when the         *)
(* throttle returns.                                                         *)

MaxClock == 8
MaxTick == 2
MaxRequests == 4
WaitTimes == {0, 2, 3}

\* _wait_for_API_request(wait_time_in_miliseconds) entered at time now: the
\* object afterwards and the time slept.
_wait_for_API_request(s, now, wait_time_in_miliseconds) ==
    IF wait_time_in_miliseconds = 0 THEN [scraper |-> s, slept |-> 0]
    ELSE IF now - s.last_http_call < wait_time_in_miliseconds
    THEN [scraper |-> s, slept |-> wait_time_in_miliseconds]
    ELSE [scraper |-> s, slept |-> 0]

InitThrottle ==
    /\ scraper = NewScraper(TRUE)
    /\ session = 0
    /\ disk = InitDisk(FALSE, FALSE)
    /\ status_dic = new_status_dic("No error")
    /\ strategy = NewStrategy
    /\ rom = NewROM
    /\ scan = NoScan
    /\ last = NoOp

\* Time passes between two requests.
Tick ==
    \E d \in 1 .. MaxTick :
        /\ scan.clock + d <= MaxClock
        /\ scan' = [scan EXCEPT !.clock = @ + d]
        /\ last' = [NoOp EXCEPT !.op = "tick"]
        /\ UNCHANGED <<scraper, session, disk, status_dic, strategy, rom>>

\* The time the last request went out, or the time of construction.
previous_call(history) ==
    IF history = <<>> THEN 0 ELSE history[Len(history)]

\* _wait_for_API_request(w) and the request that follows it; history keeps
\* the times the requests went out, and value what was observed of the call:
\* the wait time asked, the time at entry, the time of the request before,
\* the time slept.
WaitForAPIRequest ==
    \E w \in WaitTimes :
        /\ scan.clock + w <= MaxClock
        /\ Len(scan.history) < MaxRequests
        /\ \E r \in {_wait_for_API_request(scraper, scan.clock, w)} :
              /\ scraper' = r.scraper
              /\ scan' = [scan EXCEPT !.clock = @ + r.slept,
                                      !.history = Append(@, scan.clock + r.slept)]
              /\ last' = [NoOp EXCEPT
                             !.op = "_wait_for_API_request",
                             !.value = [w |-> w, now |-> scan.clock,
                                        previous |-> previous_call(scan.history),
                                        slept |-> r.slept]]
        /\ UNCHANGED <<session, disk, status_dic, strategy, rom>>

NextThrottle ==
    \/ Tick
    \/ WaitForAPIRequest

SpecThrottle == InitThrottle /\ [][NextThrottle]_vars

-----------------------------------------------------------------------------
(* The scan of a launcher: scanner_check_before_scraping, then               *)
(* scanner_process_launcher, which is followed ROM by ROM: the call of       *)
(* scanner_process_ROM inside try/except and the poll of the cancel button   *)
(* after it are one step.  Every game selection is manual and every asset    *)
(* selection automatic, so that no chooser opens; a search finds at most one *)
(* candidate, and all assets of a ROM get the same answer from the network.  *)

\* Scraper.check_before_scraping(status_dic), abstract: a scraper that is not
\* ready reports it in the status dictionary and deactivates itself.
ERR_CHECK == "Scraper is not ready"
check_before_scraping_staying_enabled(s, st_dic, ready) ==
    IF ready THEN [scraper |-> s, status_dic |-> st_dic]
    ELSE [scraper |-> s,
          status_dic |-> [st_dic EXCEPT !.status = FALSE, !.msg = ERR_CHECK]]
check_before_scraping(s, st_dic, ready) ==
    IF ready THEN [scraper |-> s, status_dic |-> st_dic]
    ELSE [scraper |-> [s EXCEPT !.scraper_disabled = TRUE],
          status_dic |-> [st_dic EXCEPT !.status = FALSE, !.msg = ERR_CHECK]]

\* 'if not status_dic['status']: kodi.dialog_OK(status_dic['msg'])'
dialog_OK(st_dic) == IF st_dic.status THEN <<>> ELSE <<st_dic.msg>>

\* scanner_check_before_scraping(): the scrapers afterwards, the dialogs
\* shown, the scrapers that were not ready, and whether the call raised.
scanner_check_before_scraping(st, ms, as, meta_ready, asset_ready) ==
    LET meta_on == st.scrape_metadata_policy # SCRAPE_ACTION_NONE
        assets_on == st.scrape_assets_policy # SCRAPE_ACTION_NONE
        m == check_before_scraping(ms, new_status_dic("No error"), meta_ready)
        e == check_before_scraping(as, new_status_dic("No error"), asset_ready)
        c0 == [meta_scraper |-> ms, asset_scraper |-> as, dialogs |-> <<>>,
               failed |-> {}, raised |-> FALSE]
        c1 == IF ~meta_on THEN c0
              ELSE IF ~st.has_meta_scraper_obj THEN [c0 EXCEPT !.raised = TRUE]
              ELSE [c0 EXCEPT !.meta_scraper = m.scraper,
                              !.dialogs = dialog_OK(m.status_dic),
                              !.failed = IF m.status_dic.status THEN {} ELSE {"meta"}]
    IN IF c1.raised \/ ~assets_on \/ st.meta_and_asset_scraper_same THEN c1
       ELSE IF ~st.has_asset_scraper_obj THEN [c1 EXCEPT !.raised = TRUE]
       ELSE [c1 EXCEPT !.asset_scraper = e.scraper,
                       !.dialogs = @ \o dialog_OK(e.status_dic),
                       !.failed = @ \cup (IF e.status_dic.status THEN {} ELSE {"asset"})]

\* The scraper objects a strategy can hold: one object for both sides, or two
\* objects of which either may be missing.
ScraperObjects ==
    {[same |-> TRUE, meta |-> TRUE, asset |-> TRUE]} \cup
    {[same |-> FALSE, meta |-> m, asset |-> a] : m \in BOOLEAN, a \in BOOLEAN}

InitScan ==
    /\ scraper = NewScraper(TRUE)
    /\ session = 0
    /\ disk = InitDisk(FALSE, FALSE)
    /\ status_dic = new_status_dic("No error")
    /\ \E mp \in MetadataPolicies \cup {SCRAPE_ACTION_NONE},
          ap \in AssetPolicies \cup {SCRAPE_ACTION_NONE},
          o \in ScraperObjects,
          enabled \in {{}, AssetIds} :
         strategy = [NewStrategy EXCEPT
                        !.game_selection_mode = SCRAPE_MANUAL,
                        !.scrape_metadata_policy = mp,
                        !.scrape_assets_policy = ap,
                        !.has_meta_scraper_obj = o.meta,
                        !.has_asset_scraper_obj = o.asset,
                        !.meta_and_asset_scraper_same = o.same,
                        !.asset_scraper_supports = AssetIds,
                        !.enabled_asset_list = AssetList(enabled, 1)]
    /\ rom = NewROM
    /\ scan = NoScan
    /\ last = NoOp

\* ScrapeStrategy.scanner_check_before_scraping(), called before the scan.
ScannerCheckBeforeScraping ==
    \E meta_ready \in BOOLEAN, asset_ready \in BOOLEAN :
      /\ scan.pc = "idle"
      /\ ~scan.checked
      /\ ~meta_ready => (strategy.scrape_metadata_policy # SCRAPE_ACTION_NONE
                         /\ strategy.has_meta_scraper_obj)
      /\ ~asset_ready => (/\ strategy.scrape_assets_policy # SCRAPE_ACTION_NONE
                          /\ ~strategy.meta_and_asset_scraper_same
                          /\ strategy.has_asset_scraper_obj
                          /\ (strategy.scrape_metadata_policy # SCRAPE_ACTION_NONE
                                 => strategy.has_meta_scraper_obj))
      /\ \E c \in {scanner_check_before_scraping(strategy, scraper, scan.asset_scraper,
                                                 meta_ready, asset_ready)} :
            /\ scraper' = c.meta_scraper
            /\ scan' = [scan EXCEPT !.asset_scraper = c.asset_scraper,
                                    !.checked = TRUE,
                                    !.check_failed = c.failed]
            /\ last' = [NoOp EXCEPT !.op = "scanner_check_before_scraping",
                                    !.dialogs = c.dialogs,
                                    !.raised = c.raised]
      /\ UNCHANGED <<session, disk, status_dic, strategy, rom>>

\* The lists launcher.get_roms() can return: the first n ROMs, in ascending or
\* in descending order of their basenames.
ROMLists ==
    {[k \in 1 .. n |-> k] : n \in 0 .. NumKeys} \cup
    {[k \in 1 .. n |-> n + 1 - k] : n \in 0 .. NumKeys}

\* sorted(roms)
sorted_keeping_the_order(roms) == roms
sorted(roms) == SortSeq(roms, LAMBDA x, y : x < y)

\* scanner_process_launcher up to the loop: the ROMs are fetched and the
\* progress dialog is started.
ScannerProcessLauncherBegin ==
    \E roms \in ROMLists :
      /\ scan.pc = "idle"
      /\ scan' = [scan EXCEPT !.pc = "loop", !.roms = roms, !.pos = 1,
                              !.startProgress = @ + 1]
      /\ last' = [NoOp EXCEPT !.op = "scanner_process_launcher"]
      /\ UNCHANGED <<scraper, session, disk, status_dic, strategy, rom>>

\* What the network can answer to a search in a scan, what the requests for
\* the assets of a ROM can give, and the answers left once MaxSearchErrors
\* errors were recorded.  An answer nobody asks for is the idle one.
IdleSearchOutcome == [error |-> TRUE, list |-> <<>>]
IdleMetadataOutcome == [error |-> TRUE, data |-> NoGameData]
ScanSearchOutcomes ==
    {o \in SearchOutcomes : o.list \in {<<>>, <<GameIds[1]>>}}
ScanMetadataOutcomes ==
    {o \in MetadataOutcomes : o.error \/ o.data = ScrapedGameData}
ScanAssetOutcomes ==
    {o \in AssetOutcomes : o.answer = 0 - 1 /\ o.ext \in {"None", "png"}
                           /\ o.n = (IF o.error THEN 0 ELSE 1)}
ErrorsLeft(ms, as) == ms.exception_counter + as.exception_counter < MaxSearchErrors

SearchesFor(asked, ms, as) ==
    IF ~asked THEN {IdleSearchOutcome}
    ELSE {o \in ScanSearchOutcomes : o.error => ErrorsLeft(ms, as)}
MetadataFor(asked, ms, as) ==
    IF ~asked THEN {IdleMetadataOutcome}
    ELSE {o \in ScanMetadataOutcomes : o.error => ErrorsLeft(ms, as)}
AssetsFor(asked, ms, as) ==
    IF ~asked THEN {IdleAssetOutcome}
    ELSE {o \in ScanAssetOutcomes :
            (o.error \/ o.url = "None" \/ o.ext = "None") => ErrorsLeft(ms, as)}

\* Whether a scraper object would send a request for the candidate it holds.
Answers(has_obj, s) ==
    has_obj /\ ~s.scraper_disabled /\ s.candidate # None /\ Truthy(s.candidate)

\* The inputs of scanner_process_ROM for one ROM, each drawn only when the
\* call reads it.
IdleInputs ==
    [nfo |-> FALSE, found |-> {}, search |-> IdleSearchOutcome,
     asset_search |-> IdleSearchOutcome, answer |-> NoIndex,
     metadata |-> IdleMetadataOutcome,
     assets |-> [id \in AssetIds |-> IdleAssetOutcome]]
PlanInputs(st) ==
    {[IdleInputs EXCEPT !.nfo = nfo, !.found = found] :
        nfo \in IF /\ st.has_meta_scraper_obj
                   /\ st.scrape_metadata_policy \in
                          {SCRAPE_POLICY_NFO_PREFERED, SCRAPE_POLICY_NFO_AND_SCRAPE}
                THEN BOOLEAN ELSE {FALSE},
        found \in IF /\ st.has_asset_scraper_obj
                     /\ st.scrape_assets_policy # SCRAPE_ACTION_NONE
                  THEN {{}, ListIds(st.enabled_asset_list)} ELSE {{}}}
SearchInputs(a, i) ==
    {[i EXCEPT !.search = search, !.asset_search = asset_search] :
        search \in SearchesFor(/\ ~a.raised
                               /\ meta_candidate_resolved(a.strategy)
                               /\ ~a.meta_scraper.scraper_disabled,
                               a.meta_scraper, a.asset_scraper),
        asset_search \in SearchesFor(/\ ~a.raised
                                     /\ asset_candidate_resolved(a.strategy)
                                     /\ a.strategy.has_asset_scraper_obj
                                     /\ ~a.asset_scraper.scraper_disabled,
                                     a.meta_scraper, a.asset_scraper)}
MetadataInputs(a, i) ==
    {[i EXCEPT !.metadata = metadata] :
        metadata \in MetadataFor(/\ ~a.raised
                                 /\ a.strategy.scrape_metadata_policy # SCRAPE_ACTION_NONE
                                 /\ a.strategy.metadata_action = ACTION_META_SCRAPER
                                 /\ Answers(TRUE, a.meta_scraper),
                                 a.meta_scraper, a.asset_scraper)}
AssetInputs(a, i) ==
    {[i EXCEPT !.assets = [id \in AssetIds |-> outcome]] :
        outcome \in AssetsFor(/\ ~a.raised
                              /\ a.strategy.scrape_assets_policy # SCRAPE_ACTION_NONE
                              /\ \E id \in DOMAIN a.strategy.asset_action_list :
                                    a.strategy.asset_action_list[id] = ACTION_ASSET_SCRAPER
                              /\ IF a.strategy.meta_and_asset_scraper_same
                                 THEN Answers(TRUE, a.meta_scraper)
                                 ELSE Answers(a.strategy.has_asset_scraper_obj,
                                              a.asset_scraper),
                              a.meta_scraper, a.asset_scraper)}
\* Whether the loop of scanner_process_launcher has a ROM to take.
LoopHasROM == scan.pc = "loop" /\ scan.pos <= Len(scan.roms)

\* One turn of the loop of scanner_process_launcher, lines 314-333, on the
\* scan record: x is what scanner_process_ROM did inside try/except; the ROM
\* was attempted, a warning is shown when the call raised, then the cancel
\* button is polled, and a cancelled scan ends the progress dialog, tells the
\* user and returns None.
process_launcher_turn_propagating_exceptions(sc, key, x, isCanceled) ==
    [sc EXCEPT
        !.asset_scraper = x.asset_scraper,
        !.items[key] = x.rom,
        !.attempted = Append(@, key),
        !.pos = @ + 1,
        !.polls = IF x.raised THEN @ ELSE @ + 1,
        !.pc = IF x.raised \/ isCanceled THEN "done" ELSE "loop",
        !.returned = ~x.raised /\ isCanceled,
        !.returned_none = ~x.raised /\ isCanceled,
        !.endProgress = IF ~x.raised /\ isCanceled THEN @ + 1 ELSE @,
        !.dialogs = IF ~x.raised /\ isCanceled
                    THEN Append(@, "Stopping ROM scraping.") ELSE @,
        !.item = [key |-> key,
                  meta_calls |-> x.meta_calls, asset_calls |-> x.asset_calls,
                  meta_transport |-> x.meta_transport,
                  asset_transport |-> x.asset_transport,
                  raised |-> x.raised, canceled |-> ~x.raised /\ isCanceled]]
process_launcher_turn_ignoring_cancel(sc, key, x, isCanceled) ==
    [sc EXCEPT
        !.asset_scraper = x.asset_scraper,
        !.items[key] = x.rom,
        !.attempted = Append(@, key),
        !.warnings = IF x.raised THEN Append(@, key) ELSE @,
        !.pos = @ + 1,
        !.polls = @ + 1,
        !.item = [key |-> key,
                  meta_calls |-> x.meta_calls, asset_calls |-> x.asset_calls,
                  meta_transport |-> x.meta_transport,
                  asset_transport |-> x.asset_transport,
                  raised |-> x.raised, canceled |-> isCanceled]]
process_launcher_turn(sc, key, x, isCanceled) ==
    [sc EXCEPT
        !.asset_scraper = x.asset_scraper,
        !.items[key] = x.rom,
        !.attempted = Append(@, key),
        !.warnings = IF x.raised THEN Append(@, key) ELSE @,
        !.pos = @ + 1,
        !.polls = @ + 1,
        !.pc = IF isCanceled THEN "done" ELSE "loop",
        !.returned = isCanceled,
        !.returned_none = isCanceled,
        !.endProgress = IF isCanceled THEN @ + 1 ELSE @,
        !.dialogs = IF isCanceled THEN Append(@, "Stopping ROM scraping.") ELSE @,
        !.item = [key |-> key,
                  meta_calls |-> x.meta_calls, asset_calls |-> x.asset_calls,
                  meta_transport |-> x.meta_transport,
                  asset_transport |-> x.asset_transport,
                  raised |-> x.raised, canceled |-> isCanceled]]

\* One turn of the loop of scanner_process_launcher on the next ROM of
\* sorted(roms): scanner_process_ROM runs stage by stage, each stage with the
\* inputs it reads, then the turn ends with the poll of the cancel button.
ScannerProcessLauncherROM ==
    /\ LoopHasROM
    /\ \E key \in {sorted(scan.roms)[scan.pos]}, isCanceled \in BOOLEAN :
        \E a0 \in {scanner_process_ROM_entry(strategy, scraper, scan.asset_scraper,
                                             scan.items[key])} :
         \E i1 \in PlanInputs(strategy) :
          \E a1 \in {process_ROM_begin(a0, i1)} :
           \E i2 \in SearchInputs(a1, i1) :
            \E a2 \in {process_ROM_candidates(a1, disk, key, i2)} :
             \E i3 \in MetadataInputs(a2, i2) :
              \E a3 \in {process_ROM_metadata(a2, i3)} :
               \E i4 \in AssetInputs(a3, i3) :
                \E x \in {process_ROM_assets(a3, i4)} :
                  /\ strategy' = x.strategy
                  /\ scraper' = x.meta_scraper
                  /\ rom' = x.rom
                  /\ scan' = process_launcher_turn(scan, key, x, isCanceled)
                  /\ last' = [NoOp EXCEPT !.op = "scanner_process_ROM",
                                          !.dialogs = x.dialogs,
                                          !.raised = x.raised]
    /\ UNCHANGED <<session, disk, status_dic>>

\* scanner_process_launcher after the loop: the progress dialog is ended and
\* the list of ROMs is returned.
ScannerProcessLauncherEnd ==
    /\ scan.pc = "loop"
    /\ scan.pos > Len(scan.roms)
    /\ scan' = [scan EXCEPT !.pc = "done", !.returned = TRUE,
                            !.endProgress = @ + 1]
    /\ last' = [NoOp EXCEPT !.op = "scanner_process_launcher"]
    /\ UNCHANGED <<scraper, session, disk, status_dic, strategy, rom>>

NextScan ==
    \/ ScannerCheckBeforeScraping
    \/ ScannerProcessLauncherBegin
    \/ ScannerProcessLauncherROM
    \/ ScannerProcessLauncherEnd

SpecScan == InitScan /\ [][NextScan]_vars

\* The interpreter runs scanner_process_launcher to its end once it is called:
\* a turn of the loop is taken whenever a ROM is left, and the method returns
\* when none is.  The turn is enabled exactly when LoopHasROM holds, and it is
\* the only step then, so its weak fairness WF_vars(ScannerProcessLauncherROM)
\* is written out as: LoopHasROM fails again and again, or turns are taken
\* again and again.
LoopTurn ==
    /\ LoopHasROM
    /\ last'.op = "scanner_process_ROM"
    /\ scan'.pos = scan.pos + 1
SpecScanFair ==
    /\ SpecScan
    /\ ([]<>~LoopHasROM \/ []<><<LoopTurn>>_vars)
    /\ WF_vars(ScannerProcessLauncherEnd)

-----------------------------------------------------------------------------
(* A run of scanner_process_ROM over the ROMs of a launcher while the        *)
(* provider fails: one scraper object serves the metadata, the metadata      *)
(* policy is to scrape, no asset is scraped.  The ROMs have the basenames    *)
(* 1, 2, ... and are processed in this order; history keeps, for every ROM   *)
(* processed, what was observed.                                             *)

RunLength == 8

\* The candidates file on disk holds one entry, for the basename key (one of
\* the first NumKeys ROMs), or is missing (key = NoKey).
RunDisk(key) ==
    [f \in Platforms \X CacheKinds |->
        IF f[1] = "P1" /\ f[2] = CACHE_CANDIDATES /\ key # NoKey
        THEN File(<< <<key, GameIds[1]>> >>) ELSE NoFile]

InitRun ==
    /\ scraper = NewScraper(TRUE)
    /\ session = 0
    /\ \E key \in {NoKey} \cup Keys : disk = RunDisk(key)
    /\ status_dic = new_status_dic("No error")
    /\ strategy = [NewStrategy EXCEPT
                      !.game_selection_mode = SCRAPE_MANUAL,
                      !.scrape_metadata_policy = SCRAPE_POLICY_SCRAPE_ONLY,
                      !.scrape_assets_policy = SCRAPE_ACTION_NONE]
    /\ rom = NewROM
    /\ scan = NoScan
    /\ last = NoOp

\* How many of the dialogs show the message msg.
RECURSIVE count_msg(_, _)
count_msg(dialogs, msg) ==
    IF dialogs = <<>> THEN 0
    ELSE (IF Head(dialogs) = msg THEN 1 ELSE 0) + count_msg(Tail(dialogs), msg)

\* What is kept of one ROM processed: a2 is the state of scanner_process_ROM
\* after the candidate stage, x the state at its end.  The dialog of a failed
\* get_metadata shows status_dic['msg'] (line 698), which _handle_error made
\* the disabling message exactly when that call disabled the scraper.
run_item(key, before, a2, x) ==
    [key |-> key,
     metadata_action |-> x.strategy.metadata_action,
     cache_missed |-> \E n \in 1 .. Len(a2.meta_calls) : a2.meta_calls[n] = "get_candidates",
     candidate_none |-> a2.meta_scraper.candidate = None,
     transport |-> x.meta_transport + x.asset_transport,
     dialogs |-> x.dialogs,
     disabled_reports |-> count_msg(a2.dialogs, ERR_DISABLED)
                          + (IF /\ Len(x.dialogs) > Len(a2.dialogs)
                                /\ x.meta_scraper.scraper_disabled
                                /\ ~a2.meta_scraper.scraper_disabled
                             THEN 1 ELSE 0),
     name |-> x.rom.name,
     exception_counter |-> x.meta_scraper.exception_counter,
     scraper_disabled |-> x.meta_scraper.scraper_disabled,
     raised |-> x.raised]

\* What the network does for a ROM of the run.
RunSearches(a) ==
    IF meta_candidate_resolved(a.strategy) /\ ~a.meta_scraper.scraper_disabled
    THEN ScanSearchOutcomes ELSE {IdleSearchOutcome}
RunMetadata(a) ==
    IF /\ a.strategy.metadata_action = ACTION_META_SCRAPER
       /\ Truthy(a.meta_scraper.candidate)
       /\ ~a.meta_scraper.scraper_disabled
    THEN ScanMetadataOutcomes ELSE {IdleMetadataOutcome}

\* scanner_process_ROM on the next ROM of the run.
RunROM ==
    /\ scan.pos < RunLength
    /\ \E key \in {scan.pos + 1} :
        \E a0 \in {scanner_process_ROM_entry(strategy, scraper, scan.asset_scraper,
                                             NewROM)} :
         \E a1 \in {process_ROM_begin(a0, IdleInputs)} :
          \E search \in RunSearches(a1) :
           \E a2 \in {process_ROM_candidates(a1, disk, key,
                                             [IdleInputs EXCEPT !.search = search])} :
            \E metadata \in RunMetadata(a2) :
             \E a3 \in {process_ROM_metadata(a2, [IdleInputs EXCEPT
                                                     !.metadata = metadata])} :
              \E x \in {process_ROM_assets(a3, IdleInputs)} :
                /\ strategy' = x.strategy
                /\ scraper' = x.meta_scraper
                /\ rom' = x.rom
                /\ scan' = [scan EXCEPT
                               !.pos = @ + 1,
                               !.attempted = Append(@, key),
                               !.history = Append(@, run_item(key, scraper, a2, x))]
                /\ last' = [NoOp EXCEPT !.op = "scanner_process_ROM",
                                        !.dialogs = x.dialogs,
                                        !.transport = x.meta_transport,
                                        !.raised = x.raised]
    /\ UNCHANGED <<session, disk, status_dic>>

NextRun ==
    RunROM

SpecRun == InitRun /\ [][NextRun]_vars

-----------------------------------------------------------------------------
(* Properties of candidate resolution.                                      *)

\* What the cache of a kind holds for the scanned platform: the dictionary in
\* memory once loaded, the file on disk before.
CacheContents(s, d, cache_type) ==
    IF s.disk_caches_loaded[cache_type] THEN s.disk_caches[cache_type]
    ELSE LET f == d[_get_scraper_file_name(cache_type, strategy.platform)]
         IN IF f.isfile THEN json_loads(f.text) ELSE EmptyCache

\* C1: a null search result is never cached.  A candidate resolution that
\* missed the cache and got None from get_candidates leaves the candidate None
\* and no candidates-cache entry for its key; a resolution started for a key the
\* loaded candidates cache does not hold misses the cache and calls
\* get_candidates; and set_candidate(K, platform, None) changes nothing of the
\* scraper but candidate, cache_key and platform.
C1_NullResultNeverCached ==
    [][ /\ (/\ last'.op = "_scanner_get_candidate"
            /\ ~last'.use_from_cache
            /\ last'.is_none)
           => /\ scraper'.candidate = None
              /\ scraper'.cache_key \notin DOMAIN scraper'.disk_caches[CACHE_CANDIDATES]
        /\ (/\ last'.op = "_scanner_get_candidate"
            /\ scraper.disk_caches_loaded[CACHE_CANDIDATES]
            /\ scraper'.cache_key \notin DOMAIN scraper.disk_caches[CACHE_CANDIDATES])
           => /\ ~last'.use_from_cache
              /\ \E i \in 1 .. Len(last'.calls) : last'.calls[i] = "get_candidates"
        /\ (last'.op = "set_candidate" /\ last'.value = None)
           => /\ scraper'.candidate = None
              /\ scraper' = [scraper EXCEPT !.candidate = None,
                                            !.cache_key = scraper'.cache_key,
                                            !.platform = scraper'.platform]
      ]_vars

\* C1 witness: a search that failed on a cache miss, after a request was made.
C1_Witness ==
    /\ last.op = "_scanner_get_candidate"
    /\ ~last.use_from_cache
    /\ last.is_none
    /\ last.transport = 1
    /\ scraper.candidate = None
    /\ scraper.cache_key \notin DOMAIN scraper.disk_caches[CACHE_CANDIDATES]

\* C2: an empty search result is cached.  A resolution that missed the cache
\* and got an empty list leaves the candidate the empty dictionary, the
\* candidates cache holding key -> {} and marked dirty; a resolution started
\* for a key whose loaded cache entry is {} uses the cache, sets the candidate
\* to {} and makes neither a get_candidates call nor a request.
C2_EmptyResultCached ==
    [][ /\ (/\ last'.op = "_scanner_get_candidate"
            /\ ~last'.use_from_cache
            /\ ~last'.is_none
            /\ last'.list = <<>>)
           => /\ scraper'.candidate = EmptyDict
              /\ scraper'.cache_key \in DOMAIN scraper'.disk_caches[CACHE_CANDIDATES]
              /\ scraper'.disk_caches[CACHE_CANDIDATES][scraper'.cache_key] = EmptyDict
              /\ scraper'.disk_caches_dirty[CACHE_CANDIDATES]
        /\ (/\ last'.op = "_scanner_get_candidate"
            /\ scraper.disk_caches_loaded[CACHE_CANDIDATES]
            /\ scraper'.cache_key \in DOMAIN scraper.disk_caches[CACHE_CANDIDATES]
            /\ scraper.disk_caches[CACHE_CANDIDATES][scraper'.cache_key] = EmptyDict)
           => /\ last'.use_from_cache
              /\ scraper'.candidate = EmptyDict
              /\ last'.transport = 0
              /\ \A i \in 1 .. Len(last'.calls) : last'.calls[i] # "get_candidates"
      ]_vars

\* C2 witness: a resolution served by a cached empty marker.
C2_Witness ==
    /\ last.op = "_scanner_get_candidate"
    /\ last.use_from_cache
    /\ scraper.candidate = EmptyDict
    /\ scraper.disk_caches[CACHE_CANDIDATES][scraper.cache_key] = EmptyDict

\* C3: on a candidates-cache hit the resolution calls neither get_candidates
\* nor clear_cache, makes no request, sets the candidate to the cached value,
\* and leaves what every cache kind holds and every dirty flag as they were.
C3_CacheHitUsedAsIs ==
    [][ (last'.op = "_scanner_get_candidate" /\ last'.use_from_cache)
        => /\ \A i \in 1 .. Len(last'.calls) :
                 last'.calls[i] \notin {"get_candidates", "clear_cache"}
           /\ last'.transport = 0
           /\ scraper'.candidate =
                 CacheContents(scraper, disk, CACHE_CANDIDATES)[scraper'.cache_key]
           /\ \A cache_type \in CacheKinds :
                 /\ CacheContents(scraper', disk', cache_type)
                      = CacheContents(scraper, disk, cache_type)
                 /\ scraper'.disk_caches_dirty[cache_type]
                      = scraper.disk_caches_dirty[cache_type]
      ]_vars

\* C3 witness: a hit on a cached candidate while another cache kind holds data.
C3_Witness ==
    /\ last.op = "_scanner_get_candidate"
    /\ last.use_from_cache
    /\ Truthy(scraper.candidate)
    /\ \E cache_type \in CacheKinds \ {CACHE_CANDIDATES} :
          CacheContents(scraper, disk, cache_type) # EmptyCache

-----------------------------------------------------------------------------
(* Properties of the error accounting.                                      *)

C5_DisabledAfterFiveErrors ==
    (last.op = "_handle_error" /\ scraper.exception_counter >= EXCEPTION_COUNTER_THRESHOLD)
    => /\ scraper.scraper_disabled
       /\ status_dic.msg = ERR_DISABLED

\* C5 as amended: every recorded error sets the status to failure; once the
\* sixth error (EXCEPTION_COUNTER_THRESHOLD + 1) has been recorded the scraper is
\* disabled and that error's message is the 'disabled' message, while up to the
\* fifth the scraper stays enabled and the message is the error's own.
C5_DisabledMessageAfterSixErrors ==
    last.op = "_handle_error"
    => /\ ~status_dic.status
       /\ scraper.exception_counter > EXCEPTION_COUNTER_THRESHOLD
          => (scraper.scraper_disabled /\ status_dic.msg = ERR_DISABLED)
       /\ scraper.exception_counter <= EXCEPTION_COUNTER_THRESHOLD
          => (~scraper.scraper_disabled /\ status_dic.msg = last.value)

\* C5 witness: the sixth error has just been recorded.
C5_Witness ==
    /\ last.op = "_handle_error"
    /\ scraper.exception_counter = EXCEPTION_COUNTER_THRESHOLD + 1
    /\ scraper.scraper_disabled
    /\ status_dic.msg = ERR_DISABLED

\* C6: over any step of a scraper object exception_counter does not decrease
\* and scraper_disabled, once true, stays true.
C6_BreakerMonotonic ==
    [][ /\ scraper'.exception_counter >= scraper.exception_counter
        /\ scraper.scraper_disabled => scraper'.scraper_disabled
      ]_vars

\* C6 witness: an operation done on a scraper that was disabled before, with
\* one more error recorded than the number that disabled it.
C6_Witness ==
    /\ scraper.scraper_disabled
    /\ scraper.exception_counter > EXCEPTION_COUNTER_THRESHOLD + 1
    /\ last.op = "_handle_error"

-----------------------------------------------------------------------------
(* Properties of planning.                                                  *)

\* C7: with a metadata scraper, the metadata action planned is: title-only ->
\* clean title; NFO-preferred -> NFO file if found, else clean title;
\* NFO-then-scraper -> NFO file if found, else scraper; scraper-only ->
\* scraper; any other policy raises and never assigns an action.
C7_MetadataActionTable ==
    (last.op = "_scanner_process_ROM_metadata_begin" /\ strategy.has_meta_scraper_obj)
    => /\ strategy.scrape_metadata_policy = SCRAPE_POLICY_TITLE_ONLY
          => (~last.raised /\ strategy.metadata_action = ACTION_META_TITLE_ONLY)
       /\ (strategy.scrape_metadata_policy = SCRAPE_POLICY_NFO_PREFERED /\ last.nfo)
          => (~last.raised /\ strategy.metadata_action = ACTION_META_NFO_FILE)
       /\ (strategy.scrape_metadata_policy = SCRAPE_POLICY_NFO_PREFERED /\ ~last.nfo)
          => (~last.raised /\ strategy.metadata_action = ACTION_META_TITLE_ONLY)
       /\ (strategy.scrape_metadata_policy = SCRAPE_POLICY_NFO_AND_SCRAPE /\ last.nfo)
          => (~last.raised /\ strategy.metadata_action = ACTION_META_NFO_FILE)
       /\ (strategy.scrape_metadata_policy = SCRAPE_POLICY_NFO_AND_SCRAPE /\ ~last.nfo)
          => (~last.raised /\ strategy.metadata_action = ACTION_META_SCRAPER)
       /\ strategy.scrape_metadata_policy = SCRAPE_POLICY_SCRAPE_ONLY
          => (~last.raised /\ strategy.metadata_action = ACTION_META_SCRAPER)
       /\ strategy.scrape_metadata_policy \notin
             {SCRAPE_POLICY_TITLE_ONLY, SCRAPE_POLICY_NFO_PREFERED,
              SCRAPE_POLICY_NFO_AND_SCRAPE, SCRAPE_POLICY_SCRAPE_ONLY}
          => (last.raised /\ strategy.metadata_action = Unset)

\* C7 witness: NFO-then-scraper planned for a ROM without NFO file.
C7_Witness ==
    /\ last.op = "_scanner_process_ROM_metadata_begin"
    /\ strategy.has_meta_scraper_obj
    /\ strategy.scrape_metadata_policy = SCRAPE_POLICY_NFO_AND_SCRAPE
    /\ ~last.nfo
    /\ strategy.metadata_action = ACTION_META_SCRAPER

\* C8: with an asset scraper and a valid asset policy, every enabled asset
\* gets exactly one action: local-only -> local; local-then-scraper -> local if
\* a local file was found, else scraper if the scraper supports the asset, else
\* local; scraper-only -> scraper if supported, else local.
C8_AssetActionTable ==
    (/\ last.op = "_scanner_process_ROM_assets_begin"
     /\ strategy.has_asset_scraper_obj
     /\ strategy.scrape_assets_policy \in
           {SCRAPE_POLICY_LOCAL_ONLY, SCRAPE_POLICY_LOCAL_AND_SCRAPE,
            SCRAPE_POLICY_SCRAPE_ONLY})
    => /\ ~last.raised
       /\ DOMAIN strategy.asset_action_list = ListIds(strategy.enabled_asset_list)
       /\ \A id \in ListIds(strategy.enabled_asset_list) :
             LET local == id \in last.found
                 supported == id \in strategy.asset_scraper_supports
                 action == strategy.asset_action_list[id]
             IN /\ strategy.scrape_assets_policy = SCRAPE_POLICY_LOCAL_ONLY
                   => action = ACTION_ASSET_LOCAL_ASSET
                /\ (strategy.scrape_assets_policy = SCRAPE_POLICY_LOCAL_AND_SCRAPE /\ local)
                   => action = ACTION_ASSET_LOCAL_ASSET
                /\ (strategy.scrape_assets_policy = SCRAPE_POLICY_LOCAL_AND_SCRAPE
                    /\ ~local /\ supported)
                   => action = ACTION_ASSET_SCRAPER
                /\ (strategy.scrape_assets_policy = SCRAPE_POLICY_LOCAL_AND_SCRAPE
                    /\ ~local /\ ~supported)
                   => action = ACTION_ASSET_LOCAL_ASSET
                /\ (strategy.scrape_assets_policy = SCRAPE_POLICY_SCRAPE_ONLY /\ supported)
                   => action = ACTION_ASSET_SCRAPER
                /\ (strategy.scrape_assets_policy = SCRAPE_POLICY_SCRAPE_ONLY /\ ~supported)
                   => action = ACTION_ASSET_LOCAL_ASSET

\* C8 witness: under scraper-only, one asset the scraper supports that has a
\* local file, and one it does not support.
C8_Witness ==
    /\ last.op = "_scanner_process_ROM_assets_begin"
    /\ strategy.has_asset_scraper_obj
    /\ strategy.scrape_assets_policy = SCRAPE_POLICY_SCRAPE_ONLY
    /\ \E a, b \in ListIds(strategy.enabled_asset_list) :
          /\ a \in strategy.asset_scraper_supports /\ a \in last.found
          /\ strategy.asset_action_list[a] = ACTION_ASSET_SCRAPER
          /\ b \notin strategy.asset_scraper_supports
          /\ strategy.asset_action_list[b] = ACTION_ASSET_LOCAL_ASSET

\* C9 as claimed: without a metadata scraper the metadata action planned is
\* none, and without an asset scraper planning gives every enabled asset the
\* action none.
C9_NoScraperNoAction ==
    /\ (last.op = "_scanner_process_ROM_metadata_begin" /\ ~strategy.has_meta_scraper_obj)
       => (~last.raised /\ strategy.metadata_action = ACTION_META_NONE)
    /\ (last.op = "_scanner_process_ROM_assets_begin" /\ ~strategy.has_asset_scraper_obj)
       => /\ ~last.raised
          /\ DOMAIN strategy.asset_action_list = ListIds(strategy.enabled_asset_list)
          /\ \A id \in ListIds(strategy.enabled_asset_list) :
                strategy.asset_action_list[id] = ACTION_ASSET_NONE

-----------------------------------------------------------------------------
(* Properties of the disk cache.                                            *)

\* C10: flush_disk_cache writes the file of a cache kind exactly when the
\* scraper supports a disk cache and the kind is loaded, non-empty and dirty;
\* the file written holds the dictionary of the kind; a written kind becomes
\* clean; what the kinds hold in memory, the loaded flags, the flags of the
\* unwritten kinds and every other file are unchanged.
C10_FlushWritesLoadedNonEmptyDirty ==
    [][ last'.op = "flush_disk_cache"
        => /\ \A cache_type \in CacheKinds :
                LET file == <<scraper.platform, cache_type>>
                    was_written == \E i \in 1 .. Len(last'.written) :
                                       last'.written[i] = file
                IN /\ was_written <=> /\ scraper.supports_disk_cache
                                      /\ scraper.disk_caches_loaded[cache_type]
                                      /\ DOMAIN scraper.disk_caches[cache_type] # {}
                                      /\ scraper.disk_caches_dirty[cache_type]
                   /\ was_written => /\ ~scraper'.disk_caches_dirty[cache_type]
                                     /\ disk'[file].isfile
                                     /\ json_loads(disk'[file].text)
                                          = scraper.disk_caches[cache_type]
                   /\ ~was_written => scraper'.disk_caches_dirty[cache_type]
                                          = scraper.disk_caches_dirty[cache_type]
           /\ DOMAIN disk' = DOMAIN disk
           /\ \A f \in DOMAIN disk :
                 (\A i \in 1 .. Len(last'.written) : last'.written[i] # f)
                 => disk'[f] = disk[f]
           /\ \A i \in 1 .. Len(last'.written) : last'.written[i][1] = scraper.platform
           /\ scraper'.disk_caches = scraper.disk_caches
           /\ scraper'.disk_caches_loaded = scraper.disk_caches_loaded
      ]_vars

\* C10 witness: a flush that wrote a file and left another kind, loaded and
\* dirty but empty, unwritten and dirty.
C10_Witness ==
    /\ last.op = "flush_disk_cache"
    /\ last.written # <<>>
    /\ \E cache_type \in CacheKinds :
          /\ scraper.disk_caches_loaded[cache_type]
          /\ scraper.disk_caches_dirty[cache_type]
          /\ scraper.disk_caches[cache_type] = EmptyCache

\* C11: flush is idempotent.  A flush_disk_cache that directly follows another
\* flush_disk_cache writes no file and leaves the disk as it was.
C11_FlushIdempotent ==
    [][ (last.op = "flush_disk_cache" /\ last'.op = "flush_disk_cache")
        => /\ last'.written = <<>>
           /\ disk' = disk
           /\ scraper' = scraper
      ]_vars

\* C11 witness: a flush that wrote nothing, directly after a flush that wrote.
C11_Witness ==
    /\ last.op = "flush_disk_cache"
    /\ last.before # <<>>
    /\ last.written = <<>>

C13_ClearCachePurgesKey ==
    [][ last'.op = "clear_cache"
        => \A cache_type \in CacheKinds :
              LET K == scraper'.cache_key
                  held == CacheContents(scraper, disk, cache_type)
              IN /\ scraper'.disk_caches_loaded[cache_type]
                 /\ ~_check_disk_cache_ret(scraper', disk', cache_type, K)
                 /\ scraper'.disk_caches[cache_type] = CacheDel(held, K)
                 /\ K \in DOMAIN held => scraper'.disk_caches_dirty[cache_type]
                 /\ K \notin DOMAIN held
                    => scraper'.disk_caches_dirty[cache_type]
                         = scraper.disk_caches_dirty[cache_type]
                 /\ (cache_type \in last'.purged) <=> (K \in DOMAIN held)
                 /\ disk' = disk
      ]_vars

\* C13 witness: a clear_cache that purged its key from the four kinds, one of
\* which still holds another key, and left clean a kind that did not hold it.
C13_Witness ==
    /\ last.op = "clear_cache"
    /\ CACHE_CANDIDATES \in last.purged
    /\ CACHE_METADATA \notin last.purged
    /\ ~scraper.disk_caches_dirty[CACHE_METADATA]
    /\ scraper.disk_caches_dirty[CACHE_CANDIDATES]
    /\ \E cache_type \in CacheKinds : scraper.disk_caches[cache_type] # EmptyCache

\* C14 as claimed: cache entries are keyed by basename and platform.  With
\* candidates stored for ROMs of the first platform only and no cache file at
\* the start, a check for a ROM of the other platform never finds its key, and
\* no cache file of the other platform is ever written.
C14_KeyedByPlatform ==
    /\ (last.op = "check_candidates_cache" /\ scraper.platform = OtherPlatform)
       => ~last.use_from_cache
    /\ \A cache_type \in CacheKinds :
          ~disk[_get_scraper_file_name(cache_type, OtherPlatform)].isfile

-----------------------------------------------------------------------------
(* Properties of the choice among the candidates found.                     *)

-----------------------------------------------------------------------------
(* Properties of the execution of the metadata action.                      *)

Called(name) == \E i \in DOMAIN last.calls : last.calls[i] = name

MetadataScraped ==
    /\ last.op = "_scanner_process_ROM_metadata"
    /\ strategy.metadata_action = ACTION_META_SCRAPER

\* C17, as claimed: when the metadata action is to query the provider and the
\* active candidate is None or empty, get_metadata is not called, the title is
\* the clean title, and in both cases the NFO update is triggered.
C17_NullOrEmptyTriggersNFOUpdate ==
    (MetadataScraped /\ ~Truthy(scraper.candidate)) =>
        /\ ~Called("get_metadata")
        /\ rom.name = format_ROM_title
        /\ Called("_scanner_update_NFO_file")

\* C17, amended: when the metadata action is to query the provider and the
\* active candidate is None or empty, get_metadata is not called, no request is
\* made and the ROM is the ROM before with the clean title as its name; the NFO
\* update is triggered exactly when the candidate is empty, and the NFO file is
\* exported exactly when moreover scan_update_NFO_files is set.
C17_NullOrEmptyFallsBackToCleanTitle ==
    [][ (/\ last'.op = "_scanner_process_ROM_metadata"
         /\ strategy.metadata_action = ACTION_META_SCRAPER
         /\ ~Truthy(scraper.candidate))
        => /\ \A i \in DOMAIN last'.calls : last'.calls[i] # "get_metadata"
           /\ last'.transport = 0
           /\ rom' = set_name(rom, format_ROM_title)
           /\ (\E i \in DOMAIN last'.calls : last'.calls[i] = "_scanner_update_NFO_file")
                <=> scraper.candidate = EmptyDict
           /\ (\E i \in DOMAIN last'.calls : last'.calls[i] = "fs_export_ROM_NFO")
                <=> (scraper.candidate = EmptyDict /\ strategy.scan_update_NFO_files) ]_vars

C17_Witness ==
    /\ MetadataScraped
    /\ scraper.candidate = None
    /\ strategy.scan_update_NFO_files
    /\ rom.name = format_ROM_title
    /\ last.calls = <<>>

\* C18: when get_metadata leaves status false in the status dictionary, the
\* user is notified with a dialog and the ROM is left as it was: name, year,
\* genre, developer, number of players, ESRB rating and plot are unchanged, and
\* neither _apply_candidate_on_metadata nor the NFO update is called.
C18_MetadataErrorLeavesROMUntouched ==
    [][ (/\ last'.op = "_scanner_process_ROM_metadata"
         /\ \E i \in DOMAIN last'.calls : last'.calls[i] = "get_metadata"
         /\ ~status_dic'.status)
        => /\ last'.dialogs = <<"dialog_yesno_timer">>
           /\ rom' = rom
           /\ last'.calls = <<"get_metadata">> ]_vars

C18_Witness ==
    /\ MetadataScraped
    /\ Called("get_metadata")
    /\ ~status_dic.status
    /\ last.dialogs = <<"dialog_yesno_timer">>
    /\ rom = NewROM

\* C19: when get_metadata succeeds with a record, year, genre, developer,
\* number of players, ESRB rating and plot of the ROM are those of the record;
\* the name is the record's title unless scan_ignore_scrap_title is set, and
\* then it is the clean title; the assets of the ROM are unchanged.
C19_MetadataApplied ==
    [][ (/\ last'.op = "_scanner_process_ROM_metadata"
         /\ \E i \in DOMAIN last'.calls : last'.calls[i] = "get_metadata"
         /\ status_dic'.status
         /\ ~IsNoGameData(last'.gamedata))
        => /\ rom'.year = last'.gamedata.year
           /\ rom'.genre = last'.gamedata.genre
           /\ rom'.developer = last'.gamedata.developer
           /\ rom'.nplayers = last'.gamedata.nplayers
           /\ rom'.esrb = last'.gamedata.esrb
           /\ rom'.plot = last'.gamedata.plot
           /\ rom'.name = IF strategy.scan_ignore_scrap_title
                          THEN format_ROM_title
                          ELSE last'.gamedata.title
           /\ rom'.assets = rom.assets ]_vars

C19_Witness ==
    /\ MetadataScraped
    /\ Called("_apply_candidate_on_metadata")
    /\ last.gamedata = ScrapedGameData
    /\ strategy.scan_ignore_scrap_title
    /\ rom.name = format_ROM_title
    /\ rom.plot = "scraped plot"

-----------------------------------------------------------------------------
(* Properties of the execution of the asset actions.                        *)

AssetCalled(calls, name) == \E i \in DOMAIN calls : calls[i] = name

\* C15: when overwrite_existing is false, an enabled asset that the ROM
\* already has is left out by _scanner_process_ROM_assets whatever action was
\* planned for it: neither set_asset nor set_trailer is called for it, its
\* field of the ROM is unchanged, and _scanner_scrap_ROM_asset (hence
\* get_assets, resolve_asset_URL and download_image) is not called for it.
C15_ExistingAssetSkipped ==
    [][ last'.op = "_scanner_process_ROM_assets"
        => \A i \in DOMAIN strategy.enabled_asset_list :
              LET id == strategy.enabled_asset_list[i]
              IN (~strategy.overwrite_existing /\ rom.assets[id] # NoPath)
                    => /\ last'.asset_calls[id] = <<>>
                       /\ last'.asset_ret[id] = NotReturned
                       /\ rom'.assets[id] = rom.assets[id] ]_vars

\* C15 witness: an asset the ROM had and that was planned for scraping was
\* left out while another asset of the same ROM was downloaded.
C15_Witness ==
    /\ last.op = "_scanner_process_ROM_assets"
    /\ ~strategy.overwrite_existing
    /\ \E id, other \in ListIds(strategy.enabled_asset_list) :
          /\ id \in last.existing
          /\ strategy.asset_action_list[id] = ACTION_ASSET_SCRAPER
          /\ last.asset_calls[id] = <<>>
          /\ rom.assets[id] = "old"
          /\ AssetCalled(last.asset_calls[other], "download_image")
          /\ rom.assets[other] = ImageLocalPath

\* C20: a call of _scanner_scrap_ROM_asset returns the local asset path it was
\* given, which may be empty, and calls neither resolve_asset_URL nor
\* download_image, when the candidate is None, when the candidate is empty,
\* when the scraper does not support the asset, and when get_assets gives None
\* or an empty list; in the first three cases get_assets is not called.
C20_ScrapAssetFallsBackToLocal ==
    [][ last'.op \in {"_scanner_process_ROM_assets", "_scanner_scrap_ROM_asset"}
        => \A id \in DOMAIN last'.asset_calls :
              AssetCalled(last'.asset_calls[id], "_scanner_scrap_ROM_asset")
              => /\ (\/ scraper.candidate = None
                     \/ scraper.candidate = EmptyDict
                     \/ id \notin strategy.asset_scraper_supports)
                       => /\ last'.asset_ret[id] = strategy.local_asset_list[id]
                          /\ ~AssetCalled(last'.asset_calls[id], "get_assets")
                          /\ ~AssetCalled(last'.asset_calls[id], "resolve_asset_URL")
                          /\ ~AssetCalled(last'.asset_calls[id], "download_image")
                 /\ last'.asset_got[id] \in {None, "[]"}
                       => /\ last'.asset_ret[id] = strategy.local_asset_list[id]
                          /\ ~AssetCalled(last'.asset_calls[id], "resolve_asset_URL")
                          /\ ~AssetCalled(last'.asset_calls[id], "download_image") ]_vars

\* C20 witness: get_assets found nothing for an asset that has no local file.
C20_Witness ==
    /\ last.op = "_scanner_process_ROM_assets"
    /\ \E id \in ListIds(strategy.enabled_asset_list) :
          /\ last.asset_got[id] = "[]"
          /\ strategy.local_asset_list[id] = NoPath
          /\ last.asset_ret[id] = NoPath
          /\ AssetCalled(last.asset_calls[id], "get_assets")

\* C21, as claimed: when resolve_asset_URL fails (None or an empty URL) or
\* resolve_asset_URL_extension fails (None or empty), that is whenever the URL
\* was asked for and no download followed, _scanner_scrap_ROM_asset returns
\* the local asset path and the asset of the ROM is set to that path.
C21_ResolveFailureFallsBackToLocal ==
    last.op = "_scanner_process_ROM_assets"
    => \A id \in DOMAIN last.asset_calls :
          (/\ AssetCalled(last.asset_calls[id], "resolve_asset_URL")
           /\ ~AssetCalled(last.asset_calls[id], "download_image"))
          => /\ ~last.raised
             /\ last.asset_ret[id] = strategy.local_asset_list[id]
             /\ rom.assets[id] = strategy.local_asset_list[id]

\* C22, as claimed: when download_image raises, a timed dialog is shown,
\* _scanner_scrap_ROM_asset returns the local asset path and the asset of the
\* ROM is set to that path.
C22_DownloadFailureFallsBackToLocal ==
    last.op = "_scanner_process_ROM_assets"
    => \A id \in DOMAIN last.asset_calls :
          (/\ AssetCalled(last.asset_calls[id], "download_image")
           /\ last.asset_download_raised[id])
          => /\ last.asset_dialogs[id] # <<>>
             /\ last.asset_dialogs[id][Len(last.asset_dialogs[id])] = "dialog_yesno_timer"
             /\ last.asset_ret[id] = strategy.local_asset_list[id]
             /\ rom.assets[id] = strategy.local_asset_list[id]

\* What the provider and the user did for the asset id in the last step.
OutcomeOf(id) == IF id = last.focus THEN last.outcome ELSE PlainAssetOutcome

C24_TrailerStoredBySetTrailer ==
    last.op = "_scanner_process_ROM_assets"
    => \A id \in DOMAIN last.asset_calls :
          /\ id = ASSET_TRAILER_ID => ~AssetCalled(last.asset_calls[id], "set_asset")
          /\ id # ASSET_TRAILER_ID => ~AssetCalled(last.asset_calls[id], "set_trailer")

-----------------------------------------------------------------------------
(* Properties of a scan.                                                    *)

\* Whether s is the run of the first n elements of t.
IsPrefix(s, t) == Len(s) <= Len(t) /\ s = SubSeq(t, 1, Len(s))

\* C25: a failure on one ROM never aborts the scan.  When scanner_process_ROM
\* raises, the exception is caught and a warning names the ROM; unless the
\* scan is cancelled at the poll that follows, the loop goes on with the next
\* ROM; and a scan that returns the list of ROMs has attempted every ROM.
C25_FailureDoesNotAbortScan ==
    /\ scan.item.raised =>
          /\ scan.warnings # <<>>
          /\ scan.warnings[Len(scan.warnings)] = scan.item.key
          /\ scan.attempted[Len(scan.attempted)] = scan.item.key
    /\ (last.op = "scanner_process_ROM" /\ scan.item.raised /\ ~scan.item.canceled) =>
          /\ scan.pc = "loop"
          /\ scan.pos = Len(scan.attempted) + 1
    /\ (scan.returned /\ ~scan.returned_none) =>
          /\ scan.pc = "done"
          /\ scan.attempted = sorted(scan.roms)

C25_Witness ==
    /\ scan.returned
    /\ ~scan.returned_none
    /\ Len(scan.attempted) = 2
    /\ scan.warnings = <<scan.attempted[1]>>
    /\ scan.items[scan.attempted[2]] # NewROM

\* C26: the cancel button is polled once after each ROM.  A turn of the loop
\* whose poll finds it pressed ends the progress dialog and returns None, with
\* the ROMs attempted being the first ones of the sorted list up to this one,
\* the ROMs attempted before left as they were, and the ROMs after it never
\* touched; and after the return no step follows.
C26_CancelStopsAfterItem ==
    [][/\ scan.pc # "done"
       /\ scan'.polls = Len(scan'.attempted)
       /\ (last'.op = "scanner_process_ROM" /\ scan'.item.canceled) =>
             /\ scan'.pc = "done"
             /\ scan'.returned_none
             /\ scan'.endProgress = scan.endProgress + 1
             /\ IsPrefix(scan'.attempted, sorted(scan'.roms))
             /\ scan'.attempted = Append(scan.attempted, scan'.item.key)
             /\ scan'.items = [scan.items EXCEPT ![scan'.item.key] = rom']
             /\ \A key \in Keys :
                   (\A n \in 1 .. Len(scan'.attempted) : scan'.attempted[n] # key)
                      => scan'.items[key] = NewROM]_vars

C26_Witness ==
    /\ scan.item.canceled
    /\ scan.returned_none
    /\ Len(scan.roms) = 2
    /\ Len(scan.attempted) = 1
    /\ scan.item.meta_transport > 0
    /\ scan.items[scan.attempted[1]] # NewROM

\* C27: a scan takes the ROMs one at a time in sorted order, each at most
\* once: the ROMs attempted are always the first ones of the sorted list; a
\* scan that is not cancelled attempts each exactly once; the progress dialog
\* is ended exactly when the scan returns, once; and every scan that has
\* started returns, either the list of ROMs or None.
C27_ScanOrderAndTermination ==
    /\ [](/\ IsPrefix(scan.attempted, SortSeq(scan.roms, LAMBDA x, y : x < y))
          /\ scan.pos = (IF scan.pc = "idle" THEN 0 ELSE Len(scan.attempted) + 1)
          /\ scan.startProgress = (IF scan.pc = "idle" THEN 0 ELSE 1)
          /\ scan.endProgress = (IF scan.pc = "done" THEN 1 ELSE 0)
          /\ scan.returned <=> scan.pc = "done"
          /\ scan.returned_none => scan.returned
          /\ (scan.returned /\ ~scan.returned_none) =>
                Len(scan.attempted) = Len(scan.roms)
          /\ LoopHasROM => scan.pos \in DOMAIN sorted(scan.roms))
    /\ [][LoopHasROM => LoopTurn]_vars
    /\ (scan.pc = "loop") ~> (scan.pc = "done")

C27_Witness ==
    /\ scan.pc = "done"
    /\ ~scan.returned_none
    /\ Len(scan.roms) = NumKeys
    /\ scan.roms[1] > scan.roms[2]
    /\ scan.attempted[1] < scan.attempted[2]

\* The provider operations among the calls made on a scraper object.
ProviderCalls(calls) ==
    {calls[n] : n \in {k \in 1 .. Len(calls) : calls[k] \in ProviderOperations}}

ScanFilter ==
    [scan_ignore_bios |-> TRUE, platform |-> strategy.platform,
     BIOS_set |-> {}, Devices_set |-> {}, Mechanical_set |-> {}]

\* C29 as stated: a ROM of the scan for which ROM_is_filtered is true is
\* skipped: nothing is called on a scraper for it and it is left as it was.
C29_FilteredROMSkipped ==
    (scan.item.key # NoKey /\ ROM_is_filtered(ScanFilter, getBase(scan.item.key))) =>
        /\ scan.item.meta_calls = <<>>
        /\ scan.item.asset_calls = <<>>
        /\ scan.items[scan.item.key] = NewROM

\* Whether the plan of the last ROM has an action that asks the provider.
MetadataPlannedForScraping ==
    /\ strategy.scrape_metadata_policy # SCRAPE_ACTION_NONE
    /\ strategy.metadata_action = ACTION_META_SCRAPER
AssetPlannedForScraping ==
    /\ strategy.scrape_assets_policy # SCRAPE_ACTION_NONE
    /\ \E id \in DOMAIN strategy.asset_action_list :
          strategy.asset_action_list[id] = ACTION_ASSET_SCRAPER

\* C30 as stated: while a ROM is processed a provider operation is called on a
\* scraper only if the metadata action planned for the ROM is the scraper
\* action or the action planned for one of its enabled assets is.
C30_NoProviderCallUnlessPlanned ==
    (scan.item.key # NoKey
        /\ ProviderCalls(scan.item.meta_calls \o scan.item.asset_calls) # {}) =>
        (MetadataPlannedForScraping \/ AssetPlannedForScraping)

-----------------------------------------------------------------------------
(* Properties of a run during an outage.                                    *)

\* The search of the n-th ROM of the run failed: the candidates cache was
\* missed and get_candidates returned None.
SearchFailed(n) ==
    scan.history[n].cache_missed /\ scan.history[n].candidate_none

RECURSIVE DisabledReports(_)
DisabledReports(n) ==
    IF n = 0 THEN 0 ELSE scan.history[n].disabled_reports + DisabledReports(n - 1)

\* C31: when the search failed on six consecutive ROMs that missed the
\* candidates cache, the next ROM (which misses the cache like them) causes no
\* request and no dialog, its metadata action is the scraper action and leaves
\* the clean title as its name, and the message that the scraper is disabled
\* was shown exactly once in the whole run.
C31_SeventhItemAfterSixFailures ==
    \A n \in 7 .. Len(scan.history) :
        ((\A k \in (n - 6) .. (n - 1) : SearchFailed(k)) /\ scan.history[n].cache_missed)
        => /\ scan.history[n].transport = 0
           /\ scan.history[n].dialogs = <<>>
           /\ scan.history[n].metadata_action = ACTION_META_SCRAPER
           /\ scan.history[n].name = format_ROM_title
           /\ ~scan.history[n].raised
           /\ DisabledReports(Len(scan.history)) = 1

\* Six searches in a row failed with an error each, and a seventh ROM that
\* missed the cache was processed after them.
C31_Witness ==
    /\ Len(scan.history) >= 7
    /\ \A k \in 1 .. 6 : SearchFailed(k) /\ scan.history[k].transport = 1
    /\ scan.history[6].dialogs = <<ERR_DISABLED>>
    /\ scan.history[7].cache_missed
    /\ scan.history[7].transport = 0

-----------------------------------------------------------------------------
(* Properties of a search.                                                  *)

\* C32: a get_candidates call whose request fails returns None, leaves the
\* status False and the error counter one higher; a call that finds nothing
\* returns the empty list, leaves the status True and the error counter and
\* the disabled flag as they were.
C32_SearchFailureAndEmptyResult ==
    [][last'.op = "get_candidates" =>
          /\ (last'.is_none /\ last'.transport = 1)
                => /\ ~status_dic'.status
                   /\ scraper'.exception_counter = scraper.exception_counter + 1
          /\ (~last'.is_none /\ last'.list = <<>>)
                => /\ status_dic'.status
                   /\ last'.transport = 1
                   /\ scraper'.exception_counter = scraper.exception_counter
                   /\ scraper'.scraper_disabled = scraper.scraper_disabled]_vars

\* A search failed after two earlier errors.
C32_Witness ==
    /\ last.op = "get_candidates"
    /\ last.is_none /\ last.transport = 1
    /\ ~status_dic.status
    /\ scraper.exception_counter = 3
    /\ ~scraper.scraper_disabled

\* The place of the first call named op in a sequence of calls (0: none).
first_call(calls, op) ==
    IF \E n \in 1 .. Len(calls) : calls[n] = op
    THEN CHOOSE n \in 1 .. Len(calls) :
            calls[n] = op /\ \A k \in 1 .. (n - 1) : calls[k] # op
    ELSE 0

\* C33: a candidate resolution that misses the candidates cache calls
\* clear_cache before get_candidates; when get_candidates then returns None
\* the resolution ends with the candidate None and with no entry for the key
\* of the ROM in the candidates, metadata, assets and internal caches.
C33_ClearCacheBeforeSearch ==
    [][(last'.op = "_scanner_get_candidate" /\ ~last'.use_from_cache)
        => /\ first_call(last'.calls, "clear_cache") > 0
           /\ first_call(last'.calls, "clear_cache")
                 < first_call(last'.calls, "get_candidates")
           /\ last'.is_none
                => /\ scraper'.candidate = None
                   /\ \A cache_type \in CacheKinds :
                         scraper'.cache_key \notin
                             DOMAIN CacheContents(scraper', disk', cache_type)]_vars

\* A search failed for a ROM that the metadata cache file on disk holds.
C33_Witness ==
    /\ last.op = "_scanner_get_candidate"
    /\ ~last.use_from_cache
    /\ last.is_none
    /\ disk[_get_scraper_file_name(CACHE_METADATA, strategy.platform)].isfile
    /\ scraper.cache_key \in
          DOMAIN json_loads(disk[_get_scraper_file_name(CACHE_METADATA,
                                                        strategy.platform)].text)
    /\ scraper.cache_key \notin DOMAIN scraper.disk_caches[CACHE_METADATA]
    /\ scraper.disk_caches_dirty[CACHE_METADATA]

\* C39: after _scanner_get_candidate has returned, the candidate of the
\* scraper is None exactly when the candidates cache was missed and
\* get_candidates returned None; otherwise the candidates cache holds, for the
\* key of the ROM, the candidate itself, which is the value the cache held
\* before (on a hit), the empty dictionary (nothing found) or an element of the
\* list get_candidates returned.
C39_CandidateAfterResolution ==
    [][(last'.op = "_scanner_get_candidate" /\ ~last'.raised)
        => /\ (scraper'.candidate = None) <=> (~last'.use_from_cache /\ last'.is_none)
           /\ scraper'.candidate # None
                => /\ scraper'.cache_key \in DOMAIN scraper'.disk_caches[CACHE_CANDIDATES]
                   /\ scraper'.disk_caches[CACHE_CANDIDATES][scraper'.cache_key]
                         = scraper'.candidate
                   /\ last'.use_from_cache
                         => scraper'.candidate =
                               CacheContents(scraper, disk, CACHE_CANDIDATES)[scraper'.cache_key]
                   /\ ~last'.use_from_cache
                         => \/ last'.list = <<>> /\ scraper'.candidate = EmptyDict
                            \/ \E n \in 1 .. Len(last'.list) :
                                  scraper'.candidate = last'.list[n]]_vars

\* The second of two candidates found was chosen and is in the cache.
C39_Witness ==
    /\ last.op = "_scanner_get_candidate"
    /\ ~last.use_from_cache
    /\ Len(last.list) = 2
    /\ scraper.candidate = last.list[2]
    /\ scraper.disk_caches[CACHE_CANDIDATES][scraper.cache_key] = last.list[2]

-----------------------------------------------------------------------------
(* Properties of the caches across sessions.                                *)

\* C38 as claimed: a key removed by clear_cache stays removed across
\* sessions.  When a scraper that uses the disk cache has been flushed and a
\* new Scraper object is made over the same files, then for every loaded cache
\* kind of the flushed object and every key K that the kind no longer holds
\* (clear_cache removed it), the new object does not find K in that kind.
C38_ClearedKeyStaysRemoved ==
    [][ (session' = session + 1 /\ scraper.supports_disk_cache)
        => \A cache_type \in CacheKinds :
              scraper.disk_caches_loaded[cache_type]
              => \A K \in Keys \ DOMAIN scraper.disk_caches[cache_type] :
                    ~_check_disk_cache_ret([scraper' EXCEPT !.cache_key = K,
                                                            !.platform = scraper.platform],
                                           disk', cache_type, K)
      ]_vars

\* C40: on one scraper object, whatever public cache functions are called,
\* a cache kind that is dirty is loaded, _load_disk_cache runs at most once
\* for each kind, and it runs only while the kind holds nothing in memory, so
\* that no entry put into the kind is discarded by the load.
C40_DirtyLoadedAndLoadedOnce ==
    /\ [](\A cache_type \in CacheKinds :
             /\ scraper.disk_caches_dirty[cache_type]
                   => scraper.disk_caches_loaded[cache_type]
             /\ scraper.loads[cache_type] <= 1
             /\ scraper.loads[cache_type] = 1 <=> scraper.disk_caches_loaded[cache_type])
    /\ [][\A cache_type \in CacheKinds :
             scraper'.loads[cache_type] > scraper.loads[cache_type]
             => /\ scraper.disk_caches[cache_type] = EmptyCache
                /\ ~scraper.disk_caches_dirty[cache_type]
                /\ ~scraper.disk_caches_loaded[cache_type]]_vars

\* The candidates cache of an object was loaded from its file once, then a
\* candidate was put into it beside the entry read; a later check found the
\* entry put.
C40_Witness ==
    /\ session = 1
    /\ last.op = "check_candidates_cache"
    /\ last.use_from_cache
    /\ scraper.loads[CACHE_CANDIDATES] = 1
    /\ scraper.disk_caches_dirty[CACHE_CANDIDATES]
    /\ Cardinality(DOMAIN scraper.disk_caches[CACHE_CANDIDATES]) = 2
    /\ disk[<<scraper.platform, CACHE_CANDIDATES>>].isfile
    /\ Len(disk[<<scraper.platform, CACHE_CANDIDATES>>].text) = 1

-----------------------------------------------------------------------------
(* Properties of the candidates used while a ROM is processed.              *)

\* C34 as claimed: when the metadata scraper and the asset scraper are two
\* objects, every ROM that has an asset planned for scraping gets a candidate
\* resolved on the asset scraper (_scanner_get_candidate, which begins with
\* check_candidates_cache) before any other call on that object, whatever the
\* metadata policy.
C34_CandidatesSelectedForBoth ==
    (/\ scan.item.key # NoKey
     /\ ~scan.item.raised
     /\ ~strategy.meta_and_asset_scraper_same
     /\ strategy.has_asset_scraper_obj
     /\ AssetPlannedForScraping)
    => /\ scan.item.asset_calls # <<>>
       /\ scan.item.asset_calls[1] = "check_candidates_cache"

\* C37 as claimed: when get_assets was called on a scraper object while a
\* ROM was processed, the candidate of that object had been set for this ROM:
\* the cache_key of the object is the basename of the ROM.
C37_CandidateOfSameItem ==
    scan.item.key # NoKey
    => /\ "get_assets" \in ProviderCalls(scan.item.meta_calls)
             => scraper.cache_key = scan.item.key
       /\ "get_assets" \in ProviderCalls(scan.item.asset_calls)
             => scan.asset_scraper.cache_key = scan.item.key

-----------------------------------------------------------------------------
(* Properties of the ROM filter.                                            *)

\* Whether the file name starts with '[BIOS]'.
startswith_BIOS(basename) ==
    Len(basename) > 0 /\ basename[1] = BIOS_TAG

\* C35 as claimed: ROM_is_filtered returns False for every basename when
\* scan_ignore_bios is off; otherwise on MAME it returns True exactly for the
\* basenames in the BIOS, Devices or Mechanical set, and on any other platform
\* exactly for the file names that start with '[BIOS]'.
C35_FilterAsDocumented ==
    last.op = "ROM_is_filtered"
    => /\ ~scan.filter.scan_ignore_bios => last.value = FALSE
       /\ (scan.filter.scan_ignore_bios /\ scan.filter.platform = PLATFORM_MAME_LONG)
             => (last.value <=> last.focus \in (scan.filter.BIOS_set
                                                  \cup scan.filter.Devices_set
                                                  \cup scan.filter.Mechanical_set))
       /\ (scan.filter.scan_ignore_bios /\ scan.filter.platform # PLATFORM_MAME_LONG)
             => (last.value <=> startswith_BIOS(last.focus))

-----------------------------------------------------------------------------
(* Properties of the throttle.                                              *)

\* C36 as claimed: _wait_for_API_request(w) does not sleep when w is 0 or when
\* at least w ms have passed since the request before; otherwise it sleeps the
\* remaining time, w minus the time passed; so a request goes out at least w
\* ms after the one before; and last_http_call is advanced to the time of the
\* request at each call.
C36_ThrottleSpacing ==
    last.op = "_wait_for_API_request"
    => LET v == last.value
           elapsed == v.now - v.previous
       IN /\ (v.w = 0 \/ elapsed >= v.w) => v.slept = 0
          /\ (v.w # 0 /\ elapsed < v.w) => v.slept = v.w - elapsed
          /\ (v.now + v.slept) - v.previous >= v.w
          /\ scraper.last_http_call = v.now + v.slept

====
